---- MODULE Spec2Model ----
(***************************************************************************)
(* The entity library of the Word add-in guide: the EntityLibrary class    *)
(* (a Map keyed by entity id, loaded from a fixed defaults array), its     *)
(* lookups, and the placeholder substitution of insertEntityWithFields.    *)
(***************************************************************************)
EXTENDS Integers, Sequences, FiniteSets, TLC

(* ---------------------------------------------------------------- bounds *)

(* Number of entities.set calls applied after the defaults are loaded. *)
MaxRegisters == 2

(* Number of placeholder/value pairs handed to insertEntityWithFields. *)
MaxFields == 2

(* ------------------------------------------------------------ JS values *)

(* The JavaScript value undefined. *)
Undefined == [tag |-> "undefined"]

UpperCaseLetters ==
  <<"A","B","C","D","E","F","G","H","I","J","K","L","M",
    "N","O","P","Q","R","S","T","U","V","W","X","Y","Z">>

LowerCaseLetters ==
  <<"a","b","c","d","e","f","g","h","i","j","k","l","m",
    "n","o","p","q","r","s","t","u","v","w","x","y","z">>

(* The lower-case form of every upper-case letter of the modelled alphabet. *)
LowerCaseOf == [i \in 1..26 |-> LowerCaseLetters[i]]

UpperCaseIndex ==
  [c \in {UpperCaseLetters[i] : i \in 1..26} |->
     CHOOSE i \in 1..26 : UpperCaseLetters[i] = c]

(* String.prototype.toLowerCase on one character: letters A-Z map to a-z,
   every other character of the alphabet is its own lower-case form. *)
toLowerCaseChar(c) ==
  IF c \in DOMAIN UpperCaseIndex THEN LowerCaseOf[UpperCaseIndex[c]] ELSE c

(* String.prototype.toLowerCase *)
toLowerCase(s) == [i \in 1..Len(s) |-> toLowerCaseChar(s[i])]

(* Mutant of includes: the empty string is reported as not contained. *)
includes_nonEmptyOnly(s, sub) ==
  /\ Len(sub) > 0
  /\ \E p \in 0..(Len(s) - Len(sub)) :
       \A k \in 1..Len(sub) : s[p + k] = sub[k]

(* String.prototype.includes: sub occurs in s at some position; the empty
   string occurs in every string. *)
includes(s, sub) ==
  \E p \in 0..(Len(s) - Len(sub)) :
    \A k \in 1..Len(sub) : s[p + k] = sub[k]

(* ------------------------------------------------------------------ Map *)

(* A Map is the sequence of its entries [key, value] in insertion order. *)
MapHas(m, k) == \E i \in 1..Len(m) : m[i].key = k

MapIndex(m, k) == CHOOSE i \in 1..Len(m) : m[i].key = k

(* Mutant of MapSet: an existing key keeps its old value. *)
MapSet_keepsFirst(m, k, v) ==
  IF MapHas(m, k) THEN m ELSE Append(m, [key |-> k, value |-> v])

(* Mutant of MapSet: setting a key drops every other entry. *)
MapSet_dropsOthers(m, k, v) == << [key |-> k, value |-> v] >>

(* Mutant of MapSet: an existing key is deleted and appended again. *)
MapSet_movesToEnd(m, k, v) ==
  Append(SelectSeq(m, LAMBDA e : e.key /= k), [key |-> k, value |-> v])

(* Map.prototype.set: an existing key keeps its position and takes the new
   value; a new key is appended. *)
MapSet(m, k, v) ==
  IF MapHas(m, k)
  THEN [m EXCEPT ![MapIndex(m, k)] = [key |-> k, value |-> v]]
  ELSE Append(m, [key |-> k, value |-> v])

(* Map.prototype.get *)
MapGet(m, k) == IF MapHas(m, k) THEN m[MapIndex(m, k)].value ELSE Undefined

(* Mutant of MapValues: the values come out newest first. *)
MapValues_reversed(m) == [i \in 1..Len(m) |-> m[Len(m) + 1 - i].value]

(* Array.from(map.values()) *)
MapValues(m) == [i \in 1..Len(m) |-> m[i].value]

(* Array.prototype.filter is SelectSeq: the elements that pass, in order. *)

(* --------------------------------------------------------------- RegExp *)

(* The outcome of new RegExp(...): the alternatives of the compiled pattern,
   or the SyntaxError it throws. *)
Compiled(alts) == [threw |-> "none", alts |-> alts]

SyntaxError == [threw |-> "SyntaxError", alts |-> << >>]

(* Line terminators, which the pattern character . does not match. *)
LineTerminators == {"\n", "\r"}

(* Pattern syntax of new RegExp(source, 'g') for the characters the modelled
   keys are made of: \c is the literal c, . is any character but a line
   terminator, + repeats the preceding atom one or more times (greedily),
   | separates alternatives, ( opens a group and ) closes one, and every
   other character of the alphabet is a literal. No modelled key balances
   its parentheses, so a source with an unescaped ( or ) does not compile. *)
Literal(c) == [kind |-> "char", ch |-> c, plus |-> FALSE]

AnyChar == [kind |-> "any", ch |-> ".", plus |-> FALSE]

(* Parse source from position i on; alts holds the finished alternatives and
   cur the atoms of the alternative being read. *)
RECURSIVE ParsePattern(_, _, _, _)
ParsePattern(source, i, alts, cur) ==
  IF i > Len(source) THEN Compiled(Append(alts, cur))
  ELSE LET c == source[i] IN
    CASE c = "\\" ->
           IF i = Len(source) THEN SyntaxError
           ELSE ParsePattern(source, i + 2, alts, Append(cur, Literal(source[i + 1])))
      [] c = "." -> ParsePattern(source, i + 1, alts, Append(cur, AnyChar))
      [] c = "+" ->
           IF cur = << >> \/ cur[Len(cur)].plus THEN SyntaxError
           ELSE ParsePattern(source, i + 1, alts,
                             [cur EXCEPT ![Len(cur)].plus = TRUE])
      [] c = "|" -> ParsePattern(source, i + 1, Append(alts, cur), << >>)
      [] c \in {"(", ")"} -> SyntaxError
      [] OTHER -> ParsePattern(source, i + 1, alts, Append(cur, Literal(c)))

(* new RegExp(source, 'g') *)
RegExp(source) == ParsePattern(source, 1, << >>, << >>)

AtomMatches(atom, c) ==
  IF atom.kind = "any" THEN c \notin LineTerminators ELSE atom.ch = c

(* Number of consecutive characters of s from pos on that atom matches. *)
RECURSIVE Run(_, _, _)
Run(atom, s, pos) ==
  IF pos <= Len(s) /\ AtomMatches(atom, s[pos]) THEN 1 + Run(atom, s, pos + 1) ELSE 0

(* Backtracking match of atoms[i..] against s from pos: the position after
   the match the engine finds first, or 0 when there is none. A repeated
   atom takes as many characters as it can and gives them back one by one. *)
RECURSIVE MatchAtoms(_, _, _, _)
RECURSIVE MatchRepeat(_, _, _, _, _)
MatchAtoms(atoms, i, s, pos) ==
  IF i > Len(atoms) THEN pos
  ELSE IF atoms[i].plus THEN MatchRepeat(atoms, i, s, pos, Run(atoms[i], s, pos))
  ELSE IF pos <= Len(s) /\ AtomMatches(atoms[i], s[pos])
       THEN MatchAtoms(atoms, i + 1, s, pos + 1)
       ELSE 0

MatchRepeat(atoms, i, s, pos, n) ==
  IF n < 1 THEN 0
  ELSE LET end == MatchAtoms(atoms, i + 1, s, pos + n)
       IN  IF end /= 0 THEN end ELSE MatchRepeat(atoms, i, s, pos, n - 1)

(* The alternatives are tried in order; the first that matches at pos wins. *)
RECURSIVE MatchAt(_, _, _, _)
MatchAt(alts, a, s, pos) ==
  IF a > Len(alts) THEN 0
  ELSE LET end == MatchAtoms(alts[a], 1, s, pos)
       IN  IF end /= 0 THEN end ELSE MatchAt(alts, a + 1, s, pos)

(* GetSubstitution: the replacement string with its $ patterns expanded for
   the match s[pos..end-1]: $$ is a dollar sign, $& the matched text, $` the
   text before the match, $' the text after it; the patterns have no
   capture groups, so every other $ stands for itself. *)
RECURSIVE GetSubstitution(_, _, _, _, _)
GetSubstitution(replacement, j, s, pos, end) ==
  IF j > Len(replacement) THEN << >>
  ELSE IF replacement[j] = "$" /\ j < Len(replacement)
            /\ replacement[j + 1] \in {"$", "&", "`", "'"}
  THEN (CASE replacement[j + 1] = "$" -> <<"$">>
          [] replacement[j + 1] = "&" -> SubSeq(s, pos, end - 1)
          [] replacement[j + 1] = "`" -> SubSeq(s, 1, pos - 1)
          [] replacement[j + 1] = "'" -> SubSeq(s, end, Len(s)))
       \o GetSubstitution(replacement, j + 2, s, pos, end)
  ELSE <<replacement[j]>> \o GetSubstitution(replacement, j + 1, s, pos, end)

(* The first position from pos on (up to the end of s, where only an empty
   match is possible) at which the pattern matches, or 0. *)
NextMatch(s, alts, pos) ==
  LET starts == {p \in pos..(Len(s) + 1) : MatchAt(alts, 1, s, p) /= 0}
  IN  IF starts = {} THEN 0
      ELSE CHOOSE p \in starts : \A q \in starts : p <= q

(* String.prototype.replace(regexp, replacement) with the g flag: matches are
   found left to right, each search starting where the previous match ended
   (one character further after an empty match); the text between matches
   is kept. *)
RECURSIVE ReplaceFrom(_, _, _, _)
ReplaceFrom(s, alts, replacement, pos) ==
  LET start == NextMatch(s, alts, pos)
      end == MatchAt(alts, 1, s, start)
  IN  IF start = 0 THEN SubSeq(s, pos, Len(s))
      ELSE SubSeq(s, pos, start - 1)
           \o GetSubstitution(replacement, 1, s, start, end)
           \o (IF end > start THEN ReplaceFrom(s, alts, replacement, end)
               ELSE IF start > Len(s) THEN << >>
               ELSE <<s[start]>> \o ReplaceFrom(s, alts, replacement, start + 1))

(* Mutant of replace: the string is returned as it was (the result of the
   replacement is dropped). *)
replace_dropsResult(s, regexp, replacement) == s

replace(s, regexp, replacement) == ReplaceFrom(s, regexp.alts, replacement, 1)

(* --------------------------------------------------------- seed entities *)

(* The defaults array of EntityLibrary.loadDefaultEntities in the entity-insertion
   example module, in source order. A Date is modelled by its ISO day.
   Strings are sequences of one-character strings. *)
defaultsExample ==
  <<
  [id |-> <<"c","o","n","f","i","d","e","n","t","i","a","l","i","t","y","-","c","l","a","u","s","e">>,
   name |-> <<"C","o","n","f","i","d","e","n","t","i","a","l","i","t","y"," ","C","l","a","u","s","e">>,
   category |-> "legal",
   content |-> <<"B","o","t","h"," ","p","a","r","t","i","e","s"," ","a","g","r","e","e"," ","t","o"," ","m","a","i","n","t","a","i","n"," ","t","h","e"," ","c","o","n","f","i","d","e","n","t","i","a","l","i","t","y"," ","o","f"," ","a","l","l"," ","p","r","o","p","r","i","e","t","a","r","y"," ","i","n","f","o","r","m","a","t","i","o","n"," ","d","i","s","c","l","o","s","e","d"," ","d","u","r","i","n","g"," ","t","h","e"," ","t","e","r","m"," ","o","f"," ","t","h","i","s"," ","a","g","r","e","e","m","e","n","t",".">>,
   version |-> "1.0",
   lastUpdated |-> "2024-01-01"],
  [id |-> <<"g","o","v","e","r","n","i","n","g","-","l","a","w">>,
   name |-> <<"G","o","v","e","r","n","i","n","g"," ","L","a","w">>,
   category |-> "legal",
   content |-> <<"T","h","i","s"," ","A","g","r","e","e","m","e","n","t"," ","s","h","a","l","l"," ","b","e"," ","g","o","v","e","r","n","e","d"," ","b","y"," ","a","n","d"," ","c","o","n","s","t","r","u","e","d"," ","i","n"," ","a","c","c","o","r","d","a","n","c","e"," ","w","i","t","h"," ","t","h","e"," ","l","a","w","s"," ","o","f"," ","t","h","e"," ","S","t","a","t","e"," ","o","f"," ","[","S","T","A","T","E","]",".">>,
   version |-> "2.1",
   lastUpdated |-> "2024-02-15"],
  [id |-> <<"c","o","m","p","a","n","y","-","s","i","g","n","a","t","u","r","e">>,
   name |-> <<"C","o","m","p","a","n","y"," ","S","i","g","n","a","t","u","r","e"," ","B","l","o","c","k">>,
   category |-> "signature",
   content |-> <<"A","C","M","E"," ","C","O","R","P","O","R","A","T","I","O","N","\n","\n","B","y",":"," ","_","_","_","_","_","_","_","_","_","_","_","_","_","_","_","_","_","_","_","_","_","_","_","\n","N","a","m","e",":"," ","[","A","U","T","H","O","R","I","Z","E","D","_","N","A","M","E","]","\n","T","i","t","l","e",":"," ","[","A","U","T","H","O","R","I","Z","E","D","_","T","I","T","L","E","]">>,
   version |-> "1.0",
   lastUpdated |-> "2024-01-01"]
  >>

(* The defaults array of the recipe docs/05-recipes/entity-insertion-patterns.md. *)
defaultsRecipe ==
  <<
  [id |-> <<"c","o","n","f","i","d","e","n","t","i","a","l","i","t","y","-","c","l","a","u","s","e">>,
   name |-> <<"C","o","n","f","i","d","e","n","t","i","a","l","i","t","y"," ","C","l","a","u","s","e">>,
   category |-> "legal",
   content |-> <<"B","o","t","h"," ","p","a","r","t","i","e","s"," ","a","g","r","e","e"," ","t","o"," ","m","a","i","n","t","a","i","n"," ","t","h","e"," ","c","o","n","f","i","d","e","n","t","i","a","l","i","t","y"," ","o","f"," ","a","l","l"," ","p","r","o","p","r","i","e","t","a","r","y"," ","i","n","f","o","r","m","a","t","i","o","n"," ","d","i","s","c","l","o","s","e","d"," ","d","u","r","i","n","g"," ","t","h","e"," ","t","e","r","m"," ","o","f"," ","t","h","i","s"," ","a","g","r","e","e","m","e","n","t","."," ","T","h","i","s"," ","o","b","l","i","g","a","t","i","o","n"," ","s","h","a","l","l"," ","s","u","r","v","i","v","e"," ","t","e","r","m","i","n","a","t","i","o","n"," ","f","o","r"," ","a"," ","p","e","r","i","o","d"," ","o","f"," ","f","i","v","e"," ","(","5",")"," ","y","e","a","r","s",".">>,
   version |-> "1.0",
   lastUpdated |-> "2024-01-01"],
  [id |-> <<"g","o","v","e","r","n","i","n","g","-","l","a","w">>,
   name |-> <<"G","o","v","e","r","n","i","n","g"," ","L","a","w">>,
   category |-> "legal",
   content |-> <<"T","h","i","s"," ","A","g","r","e","e","m","e","n","t"," ","s","h","a","l","l"," ","b","e"," ","g","o","v","e","r","n","e","d"," ","b","y"," ","a","n","d"," ","c","o","n","s","t","r","u","e","d"," ","i","n"," ","a","c","c","o","r","d","a","n","c","e"," ","w","i","t","h"," ","t","h","e"," ","l","a","w","s"," ","o","f"," ","t","h","e"," ","S","t","a","t","e"," ","o","f"," ","[","S","T","A","T","E","]",","," ","w","i","t","h","o","u","t"," ","r","e","g","a","r","d"," ","t","o"," ","i","t","s"," ","c","o","n","f","l","i","c","t"," ","o","f"," ","l","a","w"," ","p","r","o","v","i","s","i","o","n","s",".">>,
   version |-> "2.1",
   lastUpdated |-> "2024-02-15"],
  [id |-> <<"c","o","m","p","a","n","y","-","s","i","g","n","a","t","u","r","e">>,
   name |-> <<"C","o","m","p","a","n","y"," ","S","i","g","n","a","t","u","r","e"," ","B","l","o","c","k">>,
   category |-> "signature",
   content |-> <<"A","C","M","E"," ","C","O","R","P","O","R","A","T","I","O","N","\n","\n","B","y",":"," ","_","_","_","_","_","_","_","_","_","_","_","_","_","_","_","_","_","_","_","_","_","_","_","\n","N","a","m","e",":"," ","[","A","U","T","H","O","R","I","Z","E","D","_","N","A","M","E","]","\n","T","i","t","l","e",":"," ","[","A","U","T","H","O","R","I","Z","E","D","_","T","I","T","L","E","]","\n","D","a","t","e",":"," ","_","_","_","_","_","_","_","_","_","_","_","_","_","_","_","_","_","_","_","_","_">>,
   version |-> "1.0",
   lastUpdated |-> "2024-01-01"],
  [id |-> <<"l","i","m","i","t","a","t","i","o","n","-","l","i","a","b","i","l","i","t","y">>,
   name |-> <<"L","i","m","i","t","a","t","i","o","n"," ","o","f"," ","L","i","a","b","i","l","i","t","y">>,
   category |-> "legal",
   content |-> <<"I","N"," ","N","O"," ","E","V","E","N","T"," ","S","H","A","L","L"," ","E","I","T","H","E","R"," ","P","A","R","T","Y"," ","B","E"," ","L","I","A","B","L","E"," ","F","O","R"," ","A","N","Y"," ","I","N","D","I","R","E","C","T",","," ","I","N","C","I","D","E","N","T","A","L",","," ","S","P","E","C","I","A","L",","," ","C","O","N","S","E","Q","U","E","N","T","I","A","L",","," ","O","R"," ","P","U","N","I","T","I","V","E"," ","D","A","M","A","G","E","S",","," ","I","N","C","L","U","D","I","N","G"," ","W","I","T","H","O","U","T"," ","L","I","M","I","T","A","T","I","O","N",","," ","L","O","S","S"," ","O","F"," ","P","R","O","F","I","T","S",","," ","D","A","T","A",","," ","U","S","E",","," ","G","O","O","D","W","I","L","L",","," ","O","R"," ","O","T","H","E","R"," ","I","N","T","A","N","G","I","B","L","E"," ","L","O","S","S","E","S",".">>,
   version |-> "1.2",
   lastUpdated |-> "2024-03-01"]
  >>

(* StandardEntity['category']: the closed union of the interface. *)
Categories == {"legal", "boilerplate", "signature", "header", "footer"}

(* ------------------------------------------------------- EntityLibrary *)

(* loadDefaultEntities: for (const entity of defaults)
     this.entities.set(entity.id, entity), starting from the empty Map. *)
RECURSIVE loadDefaultEntities(_, _)
loadDefaultEntities(m, defaults) ==
  IF defaults = << >> THEN m
  ELSE loadDefaultEntities(MapSet(m, Head(defaults).id, Head(defaults)),
                           Tail(defaults))

(* Mutant of EntityLibrary: the constructor does not load the defaults. *)
EntityLibrary_empty(which) == << >>

(* new EntityLibrary(): the entities Map after the constructor has run, for
   the example module and for the recipe's listing of the same class. *)
EntityLibrary(which) ==
  loadDefaultEntities(<< >>,
    IF which = "recipe" THEN defaultsRecipe ELSE defaultsExample)

(* Mutant of register: the entity is appended even when its id is present. *)
register_appendsAlways(m, entity) ==
  Append(m, [key |-> entity.id, value |-> entity])

(* Mutant of register: the stored copy gets a fresh lastUpdated. *)
register_touchesLastUpdated(m, entity) ==
  MapSet(m, entity.id, [entity EXCEPT !.lastUpdated = "2026-01-01"])

(* The single registration step of the class, this.entities.set(entity.id,
   entity): it stores whatever entity it is handed, with no check of the
   category (the union type exists at compile time only). *)
register(m, entity) == MapSet(m, entity.id, entity)

(* Mutant of getEntity: an unknown id falls back to the first entity. *)
getEntity_fallsBack(m, id) ==
  IF MapHas(m, id) THEN MapGet(m, id) ELSE m[1].value

(* getEntity(id) *)
getEntity(m, id) == MapGet(m, id)

(* Mutant of getByCategory: the filter is missing. *)
getByCategory_unfiltered(m, category) == MapValues(m)

(* getByCategory(category) *)
getByCategory(m, category) ==
  SelectSeq(MapValues(m), LAMBDA e : e.category = category)

(* Mutant of search: the query is not lower-cased. *)
search_caseSensitiveQuery(m, query) ==
  SelectSeq(MapValues(m),
    LAMBDA e : \/ includes(toLowerCase(e.name), query)
               \/ includes(toLowerCase(e.content), query))

(* search(query), a method of the recipe's listing of the class. *)
search(m, query) ==
  LET lowerQuery == toLowerCase(query)
  IN  SelectSeq(MapValues(m),
        LAMBDA e : \/ includes(toLowerCase(e.name), lowerQuery)
                   \/ includes(toLowerCase(e.content), lowerQuery))

(* ------------------------------------------------ placeholder resolution *)

(* The pattern source of one placeholder: `\\[${placeholder}\\]`. *)
PlaceholderSource(placeholder) == <<"\\", "[">> \o placeholder \o <<"\\", "]">>

(* Mutant of resolvePlaceholders: brackets left after the loop are removed. *)
RECURSIVE resolvePlaceholders_stripsBrackets(_, _)
resolvePlaceholders_stripsBrackets(content, entries) ==
  IF entries = << >>
  THEN [threw |-> "none",
        value |-> SelectSeq(content, LAMBDA c : c \notin {"[", "]"})]
  ELSE LET regexp == RegExp(PlaceholderSource(Head(entries)[1]))
       IN  IF regexp.threw /= "none"
           THEN [threw |-> regexp.threw, value |-> Undefined]
           ELSE resolvePlaceholders_stripsBrackets(
                  replace(content, regexp, Head(entries)[2]), Tail(entries))

(* The substitution loop of insertEntityWithFields over
   Object.entries(fieldValues), a sequence of <<placeholder, value>>:
     content = content.replace(new RegExp(`\\[${placeholder}\\]`, 'g'), value)
   The outcome is the final content, or the SyntaxError of a pattern that
   does not compile, which leaves the loop. *)
RECURSIVE resolvePlaceholders(_, _)
resolvePlaceholders(content, entries) ==
  IF entries = << >> THEN [threw |-> "none", value |-> content]
  ELSE LET regexp == RegExp(PlaceholderSource(Head(entries)[1]))
       IN  IF regexp.threw /= "none"
           THEN [threw |-> regexp.threw, value |-> Undefined]
           ELSE resolvePlaceholders(replace(content, regexp, Head(entries)[2]),
                                    Tail(entries))

(* ---------------------------------------------------------------- inputs *)

ID_GOVERNING_LAW == <<"g","o","v","e","r","n","i","n","g","-","l","a","w">>
ID_NDA == <<"n","d","a">>
ID_NONEXISTENT == <<"n","o","n","e","x","i","s","t","e","n","t">>

(* Ids handed to getEntity: the seeds', a registered one, an unknown one. *)
LookupIds ==
  {defaultsRecipe[i].id : i \in 1..Len(defaultsRecipe)} \cup {ID_NDA, ID_NONEXISTENT}

(* A category string outside the union, as a caller without type checking
   (or data read at run time) can supply. *)
INVALID_CATEGORY == "invalid-value"

(* The remaining fields of a registered entity, chosen so that two
   registrations under one id differ in every field. *)
FieldsA ==
  [name |-> <<"N","D","A"," ","T","e","r","m","s">>, content |-> <<"[","A","]"," ","a","n","d"," ","[","A","]"," ","a","g","a","i","n">>,
   version |-> "1.0", lastUpdated |-> "2024-01-01"]

FieldsB ==
  [name |-> <<"M","u","t","u","a","l"," ","n","d","a">>, content |-> <<"C","o","n","f","i","d","e","n","t","i","a","l","i","t","y"," ","[","A","]"," ","[","B","]">>,
   version |-> "3.0", lastUpdated |-> "2025-06-30"]

FieldsFor(category) ==
  IF category \in {"legal", "footer", "signature"} THEN FieldsB ELSE FieldsA

Entity(id, category) ==
  [id |-> id, name |-> FieldsFor(category).name, category |-> category,
   content |-> FieldsFor(category).content,
   version |-> FieldsFor(category).version,
   lastUpdated |-> FieldsFor(category).lastUpdated]

(* Entities handed to the registration step: under the id of a seed and
   under a new id, covering every category of the union and one outside it. *)
RegisterInputs ==
  {Entity(ID_GOVERNING_LAW, c) :
     c \in {"legal", "boilerplate", "header", INVALID_CATEGORY}}
  \cup
  {Entity(ID_NDA, c) :
     c \in {"legal", "signature", "footer", INVALID_CATEGORY}}

(* Queries handed to search; pairs of them differ only in letter case. *)
Queries ==
  { << >>,
    <<"c","o","n","f","i","d","e","n","t","i","a","l","i","t","y">>,
    <<"C","O","N","F","I","D","E","N","T","I","A","L","I","T","Y">>,
    <<"n","d","a">>,
    <<"N","D","A">>,
    <<"S","t","a","t","e"," ","O","f">>,
    <<"z","z","z">> }

(* Contents of the entity the placeholder substitution is applied to. *)
ProbeContents ==
  { <<"[","A","]"," ","a","n","d"," ","[","A","]"," ","a","g","a","i","n">>,
    <<"[","A","]"," ","[","B","]">>,
    <<"p","l","a","i","n"," ","t","e","x","t">>,
    <<"[","A","+","]"," ","[","A","A","]">>,
    <<"[","A","|","B","]"," ","[","A","]","B","]">>,
    <<"[","[","A","]","]"," ","[","C","]">> }

ProbeEntities ==
  { [id |-> ID_NDA, name |-> FieldsA.name, category |-> "boilerplate",
     content |-> c, version |-> "1.0", lastUpdated |-> "2024-01-01"] :
      c \in ProbeContents }

(* Placeholder names: plain names and names holding pattern characters. *)
Placeholders == { <<"A">>, <<"B">>, <<"A","+">>, <<"A","|","B">>, <<"(","A">> }

(* Replacement values: plain text, text holding a token, the empty string
   and text holding a $ pattern. *)
Values == { <<"X">>, <<"[","B","]">>, << >>, <<"$","&">> }

(* Object.entries(fieldValues): up to MaxFields pairs <<placeholder, value>>
   with distinct placeholders, in property order. *)
RECURSIVE EntriesOfLength(_)
EntriesOfLength(n) ==
  IF n = 0 THEN { << >> }
  ELSE { Append(es, <<k, v>>) :
           es \in EntriesOfLength(n - 1), k \in Placeholders, v \in Values }

DistinctKeys(es) == \A i, j \in 1..Len(es) : es[i][1] = es[j][1] => i = j

FieldValues ==
  { es \in UNION { EntriesOfLength(n) : n \in 0..MaxFields } : DistinctKeys(es) }

(* The governing-law seed filled in for one jurisdiction. *)
PLACEHOLDER_STATE == <<"S","T","A","T","E">>

Delaware == <<"D","e","l","a","w","a","r","e">>

GoverningLawCall ==
  [entityId |-> ID_GOVERNING_LAW, fieldValues |-> << <<PLACEHOLDER_STATE, Delaware>> >>]

(* Arguments of insertEntityWithFields: the probe entity with every
   fieldValues, a seed with its own placeholder, and an id that is not in
   the library. *)
FieldCalls ==
  { [entityId |-> ID_NDA, fieldValues |-> es] : es \in FieldValues }
  \cup { GoverningLawCall }
  \cup { [entityId |-> ID_NONEXISTENT, fieldValues |-> << <<<<"A">>, <<"X">>>> >>] }

(* ----------------------------------------------------------------- state *)

VARIABLES
  impl,      \* which listing of the class is running: "example" or "recipe"
  entities,  \* EntityLibrary.entities, the Map
  history,   \* every entity handed to entities.set so far, oldest first
  last,      \* the most recent call: its name, argument, return value, error
  doc,       \* the texts written to the document selection, oldest first
  fonts,     \* the font change made to each inserted range, oldest first
  wordRuns,  \* how many times a Word run was started
  pending    \* the insertEntityWithFields call about to be made, if any


NoPending == [entityId |-> Undefined, fieldValues |-> << >>]

Threw(op, arg, error) == [op |-> op, arg |-> arg, ret |-> Undefined, threw |-> error]

NoCall == [op |-> "none", arg |-> Undefined, ret |-> Undefined, threw |-> "none"]

Returned(op, arg, ret) == [op |-> op, arg |-> arg, ret |-> ret, threw |-> "none"]

(* The defaults array the running listing loads. *)
Defaults == IF impl = "recipe" THEN defaultsRecipe ELSE defaultsExample

(* Registration steps applied since the constructor returned. *)
Registers == Len(history) - Len(Defaults)

(* The library of the example module as constructed, no call made. *)
LibraryIdle ==
  /\ impl = "example"
  /\ entities = EntityLibrary(impl)
  /\ history = Defaults
  /\ last = NoCall
  /\ doc = << >>
  /\ fonts = << >>
  /\ wordRuns = 0
  /\ pending = NoPending

VARIABLES
  runLog,     \* the safeWordRun calls made so far, oldest first
  data,       \* the entries of the data object handed to generateCustomXml
  xml,        \* the string generateCustomXml returned, if it was called
  controls,   \* the content controls of the document, in document order
  resolution, \* the outcome of resolveEntityInsertionPoints, if it was called
  document,   \* what the validations read from the document: its content controls and body
  results,    \* the outcome of runAllValidations, if it was called
  cache,      \* DocumentCache.cache, the Map
  lastSync,   \* DocumentCache.lastSync
  now,        \* what Date.now() returns
  cacheCalls  \* the calls made on the DocumentCache, oldest first

libraryVars == <<impl, entities, history, last, doc, fonts, wordRuns, pending>>

runVars == <<runLog>>

xmlVars == <<data, xml>>

controlsVars == <<controls, resolution>>

validationVars == <<document, results>>

cacheVars == <<cache, lastSync, now, cacheCalls>>

(* What the steps of one part of the program leave alone: the variables of
   the other parts. *)
notLibrary == <<runVars, xmlVars, controlsVars, validationVars, cacheVars>>

notRun == <<libraryVars, xmlVars, controlsVars, validationVars, cacheVars>>

notXml == <<libraryVars, runVars, controlsVars, validationVars, cacheVars>>

notControls == <<libraryVars, runVars, xmlVars, validationVars, cacheVars>>

notValidation == <<libraryVars, runVars, xmlVars, controlsVars, cacheVars>>

notCache == <<libraryVars, runVars, xmlVars, controlsVars, validationVars>>

(* The other parts before anything was called on them. *)
RunIdle == runLog = << >>

XmlIdle == data = << >> /\ xml = Undefined

ControlsIdle == controls = << >> /\ resolution = Undefined

ValidationIdle == document = Undefined /\ results = Undefined

CacheIdle == cache = << >> /\ lastSync = 0 /\ now = 0 /\ cacheCalls = << >>

NotLibraryInit == RunIdle /\ XmlIdle /\ ControlsIdle /\ ValidationIdle /\ CacheIdle

NotRunInit == LibraryIdle /\ XmlIdle /\ ControlsIdle /\ ValidationIdle /\ CacheIdle

NotXmlInit == LibraryIdle /\ RunIdle /\ ControlsIdle /\ ValidationIdle /\ CacheIdle

NotControlsInit == LibraryIdle /\ RunIdle /\ XmlIdle /\ ValidationIdle /\ CacheIdle

NotValidationInit == LibraryIdle /\ RunIdle /\ XmlIdle /\ ControlsIdle /\ CacheIdle

NotCacheInit == LibraryIdle /\ RunIdle /\ XmlIdle /\ ControlsIdle /\ ValidationIdle

vars == <<libraryVars, runVars, xmlVars, controlsVars, validationVars, cacheVars>>

(* export const entityLibrary = new EntityLibrary() *)
Init ==
  /\ impl \in {"example", "recipe"}
  /\ entities = EntityLibrary(impl)
  /\ history = Defaults
  /\ last = NoCall
  /\ doc = << >>
  /\ fonts = << >>
  /\ wordRuns = 0
  /\ pending = NoPending
  /\ NotLibraryInit

(* this.entities.set(entity.id, entity) for one more entity *)
Register(entity) ==
  /\ Registers < MaxRegisters
  /\ entities' = register(entities, entity)
  /\ history' = Append(history, entity)
  /\ last' = Returned("register", entity, Undefined)
  /\ UNCHANGED <<impl, doc, fonts, wordRuns, pending>>
  /\ UNCHANGED notLibrary

GetEntity(id) ==
  /\ last' = Returned("getEntity", id, getEntity(entities, id))
  /\ UNCHANGED <<impl, entities, history, doc, fonts, wordRuns, pending>>
  /\ UNCHANGED notLibrary

GetByCategory(category) ==
  /\ last' = Returned("getByCategory", category, getByCategory(entities, category))
  /\ UNCHANGED <<impl, entities, history, doc, fonts, wordRuns, pending>>
  /\ UNCHANGED notLibrary

(* Mutant of Search: the Map is left re-ordered by the call. *)
Search_reordersMap(query) ==
  /\ impl = "recipe"
  /\ last' = Returned("search", query, search(entities, query))
  /\ entities' = [i \in 1..Len(entities) |-> entities[Len(entities) + 1 - i]]
  /\ UNCHANGED <<impl, history, doc, fonts, wordRuns, pending>>
  /\ UNCHANGED notLibrary

Search(query) ==
  /\ impl = "recipe"
  /\ last' = Returned("search", query, search(entities, query))
  /\ UNCHANGED <<impl, entities, history, doc, fonts, wordRuns, pending>>
  /\ UNCHANGED notLibrary

Next ==
  \/ \E entity \in RegisterInputs : Register(entity)
  \/ \E id \in LookupIds : GetEntity(id)
  \/ \E category \in Categories : GetByCategory(category)
  \/ \E query \in Queries : Search(query)

Spec == Init /\ [][Next]_vars

(* ------------------------------------------------ insertEntityWithFields *)

(* The library holding one more entity, and a call of insertEntityWithFields
   about to be made on it. *)
InitFields ==
  /\ impl \in {"example", "recipe"}
  /\ \E probe \in ProbeEntities :
       /\ entities = register(EntityLibrary(impl), probe)
       /\ history = Append(Defaults, probe)
  /\ last = NoCall
  /\ doc = << >>
  /\ fonts = << >>
  /\ wordRuns = 0
  /\ pending \in FieldCalls
  /\ NotLibraryInit

(* What the caller of Word.run / safeWordRun sees when the callback or the
   host fails: the example wraps every failure in a DocumentError, the
   recipe lets the original error through. *)
RunError(error) == IF impl = "example" THEN "DocumentError" ELSE error

(* Mutant of InsertEntityWithFields: the resolved text is also written back
   into the stored entity. *)
InsertEntityWithFields_writesBack(hostOk) ==
  /\ pending /= NoPending
  /\ LET entity == getEntity(entities, pending.entityId)
         resolved == resolvePlaceholders(entity.content, pending.fieldValues)
     IN  IF entity = Undefined
         THEN /\ last' = Threw("insertEntityWithFields", pending, "Error: Entity not found")
              /\ doc' = doc
              /\ fonts' = fonts
              /\ wordRuns' = wordRuns
              /\ entities' = entities
         ELSE IF ~hostOk
         THEN /\ last' = Threw("insertEntityWithFields", pending, RunError("HostError"))
              /\ doc' = doc
              /\ fonts' = fonts
              /\ wordRuns' = wordRuns + 1
              /\ entities' = entities
         ELSE IF resolved.threw /= "none"
         THEN /\ last' = Threw("insertEntityWithFields", pending, RunError(resolved.threw))
              /\ doc' = doc
              /\ fonts' = fonts
              /\ wordRuns' = wordRuns + 1
              /\ entities' = entities
         ELSE /\ last' = Returned("insertEntityWithFields", pending, Undefined)
              /\ doc' = Append(doc, resolved.value)
              /\ fonts' = Append(fonts, "unchanged")
              /\ wordRuns' = wordRuns + 1
              /\ entities' = MapSet(entities, entity.id,
                                    [entity EXCEPT !.content = resolved.value])
  /\ pending' = NoPending
  /\ UNCHANGED <<impl, history>>
  /\ UNCHANGED notLibrary

(* insertEntityWithFields(entityWithFields): look the entity up, throw when
   it is missing; otherwise, inside the Word run, resolve the placeholders,
   queue range.insertText(content, replace) and sync. hostOk is whether the
   host carries out the run. *)
InsertEntityWithFields(hostOk) ==
  /\ pending /= NoPending
  /\ LET entity == getEntity(entities, pending.entityId)
         resolved == resolvePlaceholders(entity.content, pending.fieldValues)
     IN  IF entity = Undefined
         THEN /\ last' = Threw("insertEntityWithFields", pending, "Error: Entity not found")
              /\ doc' = doc
              /\ fonts' = fonts
              /\ wordRuns' = wordRuns
         ELSE IF ~hostOk
         THEN /\ last' = Threw("insertEntityWithFields", pending, RunError("HostError"))
              /\ doc' = doc
              /\ fonts' = fonts
              /\ wordRuns' = wordRuns + 1
         ELSE IF resolved.threw /= "none"
         THEN /\ last' = Threw("insertEntityWithFields", pending, RunError(resolved.threw))
              /\ doc' = doc
              /\ fonts' = fonts
              /\ wordRuns' = wordRuns + 1
         ELSE /\ last' = Returned("insertEntityWithFields", pending, Undefined)
              /\ doc' = Append(doc, resolved.value)
              /\ fonts' = Append(fonts, "unchanged")
              /\ wordRuns' = wordRuns + 1
  /\ pending' = NoPending
  /\ UNCHANGED <<impl, entities, history>>
  /\ UNCHANGED notLibrary

NextFields == \E hostOk \in BOOLEAN : InsertEntityWithFields(hostOk)

SpecFields == InitFields /\ [][NextFields]_vars

(* ------------------------------------ insertEntity, insertEntityWithTracking *)

MaxInserts == 2

(* Ids handed to the insertion functions: a legal seed, the signature seed,
   a boilerplate entity when it was registered, and an id nobody registered. *)
InsertIds ==
  {ID_GOVERNING_LAW, defaultsExample[3].id, ID_NDA, ID_NONEXISTENT}

USER_ID == <<"u","1">>

UserIds == {Undefined, USER_ID}

(* The font change insertEntity makes to the inserted range. *)
FontFor(category) ==
  CASE category = "legal" -> "italic"
    [] category = "signature" -> "size 11"
    [] OTHER -> "unchanged"

(* Mutant of insertEntity: the entity is looked up inside the Word run. *)
insertEntity_looksUpInsideRun(m, entityId, hostOk) ==
  LET entity == getEntity(m, entityId)
  IN  IF entity = Undefined
      THEN [threw |-> RunError("Error: Entity not found"), ran |-> 1,
            text |-> Undefined, font |-> Undefined]
      ELSE IF ~hostOk
      THEN [threw |-> RunError("HostError"), ran |-> 1,
            text |-> Undefined, font |-> Undefined]
      ELSE [threw |-> "none", ran |-> 1,
            text |-> entity.content, font |-> FontFor(entity.category)]

(* insertEntity(entityId) on the library m: the entity is looked up and a
   missing one is an Error thrown before the Word run; the run replaces the
   selection by the content, sets the font by category and syncs. The
   outcome tells whether a run was started and what it wrote. *)
insertEntity(m, entityId, hostOk) ==
  LET entity == getEntity(m, entityId)
  IN  IF entity = Undefined
      THEN [threw |-> "Error: Entity not found", ran |-> 0,
            text |-> Undefined, font |-> Undefined]
      ELSE IF ~hostOk
      THEN [threw |-> RunError("HostError"), ran |-> 1,
            text |-> Undefined, font |-> Undefined]
      ELSE [threw |-> "none", ran |-> 1,
            text |-> entity.content, font |-> FontFor(entity.category)]

(* The library as constructed, or holding one boilerplate entity more; at
   most one insertEntityWithFields call waiting. *)
InitInsert ==
  /\ impl \in {"example", "recipe"}
  /\ \E registered \in BOOLEAN :
       IF registered
       THEN /\ entities = register(EntityLibrary(impl), Entity(ID_NDA, "boilerplate"))
            /\ history = Append(Defaults, Entity(ID_NDA, "boilerplate"))
       ELSE /\ entities = EntityLibrary(impl)
            /\ history = Defaults
  /\ last = NoCall
  /\ doc = << >>
  /\ fonts = << >>
  /\ wordRuns = 0
  /\ pending \in {NoPending, GoverningLawCall,
                  [entityId |-> ID_NONEXISTENT, fieldValues |-> << >>]}
  /\ NotLibraryInit

(* The effect of an insertEntity outcome on the document. *)
Inserted(outcome) ==
  /\ wordRuns' = wordRuns + outcome.ran
  /\ doc' = IF outcome.threw = "none" THEN Append(doc, outcome.text) ELSE doc
  /\ fonts' = IF outcome.threw = "none" THEN Append(fonts, outcome.font) ELSE fonts

InsertEntity(entityId, hostOk) ==
  /\ wordRuns < MaxInserts
  /\ LET outcome == insertEntity(entities, entityId, hostOk)
     IN  /\ Inserted(outcome)
         /\ last' = IF outcome.threw = "none"
                    THEN Returned("insertEntity", entityId, Undefined)
                    ELSE Threw("insertEntity", entityId, outcome.threw)
  /\ UNCHANGED <<impl, entities, history, pending, notLibrary>>

(* insertEntityWithTracking(entityId, userId), of the recipe: the entity is
   looked up and a missing one is an Error; then insertEntity is awaited and
   the version record is returned. *)
InsertEntityWithTracking(entityId, userId, hostOk) ==
  /\ impl = "recipe"
  /\ wordRuns < MaxInserts
  /\ LET entity == getEntity(entities, entityId)
         outcome == insertEntity(entities, entityId, hostOk)
         arg == [entityId |-> entityId, userId |-> userId]
     IN  IF entity = Undefined
         THEN /\ last' = Threw("insertEntityWithTracking", arg, "Error: Entity not found")
              /\ UNCHANGED <<doc, fonts, wordRuns>>
         ELSE /\ Inserted(outcome)
              /\ last' = IF outcome.threw = "none"
                         THEN Returned("insertEntityWithTracking", arg,
                                       [entityId |-> entityId,
                                        version |-> entity.version,
                                        insertedAt |-> "new Date()",
                                        insertedBy |-> userId])
                         ELSE Threw("insertEntityWithTracking", arg, outcome.threw)
  /\ UNCHANGED <<impl, entities, history, pending, notLibrary>>

NextInsert ==
  \/ \E entityId \in InsertIds, hostOk \in BOOLEAN : InsertEntity(entityId, hostOk)
  \/ \E hostOk \in BOOLEAN : InsertEntityWithFields(hostOk)
  \/ \E entityId \in InsertIds, userId \in UserIds, hostOk \in BOOLEAN :
       InsertEntityWithTracking(entityId, userId, hostOk)

SpecInsert == InitInsert /\ [][NextInsert]_vars

(* ------------------------------------------- resolveEntityInsertionPoints *)

MaxControls == 3

ENTITY_PREFIX == <<"e","n","t","i","t","y",":">>

RESOLVED_PREFIX == <<"r","e","s","o","l","v","e","d",":">>

(* String.prototype.startsWith *)
startsWith(s, prefix) ==
  /\ Len(prefix) <= Len(s)
  /\ \A k \in 1..Len(prefix) : s[k] = prefix[k]

(* String.prototype.replace with a string pattern and a replacement free of
   $: the first occurrence of the pattern is replaced, if there is one. *)
replaceString(s, pattern, replacement) ==
  LET starts == {p \in 0..(Len(s) - Len(pattern)) :
                   \A k \in 1..Len(pattern) : s[p + k] = pattern[k]}
  IN  IF starts = {} THEN s
      ELSE LET p == CHOOSE q \in starts : \A r \in starts : q <= r
           IN  SubSeq(s, 1, p) \o replacement \o SubSeq(s, p + Len(pattern) + 1, Len(s))

(* Tags of content controls: insertion points of seeds and of an unknown
   entity, an insertion point without a type, one whose type holds the
   prefix again, tags that are no insertion point, and no tag. *)
ControlTags ==
  {ENTITY_PREFIX \o ID_GOVERNING_LAW,
   ENTITY_PREFIX \o defaultsExample[3].id,
   ENTITY_PREFIX \o ID_NONEXISTENT,
   ENTITY_PREFIX,
   ENTITY_PREFIX \o ENTITY_PREFIX \o ID_GOVERNING_LAW,
   RESOLVED_PREFIX \o ID_GOVERNING_LAW,
   <<"E","n","t","i","t","y",":">> \o ID_GOVERNING_LAW,
   <<"x">> \o ENTITY_PREFIX \o ID_GOVERNING_LAW,
   << >>}

PLACEHOLDER_TEXT == <<"[","I","n","s","e","r","t","]">>

(* The documents: up to MaxControls content controls showing their
   placeholder text. *)
RECURSIVE ControlsUpTo(_)
ControlsUpTo(n) ==
  IF n = 0 THEN {<< >>}
  ELSE LET shorter == ControlsUpTo(n - 1)
       IN  shorter \cup {Append(cs, [tag |-> tag, text |-> PLACEHOLDER_TEXT]) :
                           cs \in shorter, tag \in ControlTags}

(* Mutant of ResolveItems: a resolved control keeps its entity: tag. *)
RECURSIVE ResolveItems_keepsTag(_, _, _, _)
ResolveItems_keepsTag(m, items, i, acc) ==
  IF i > Len(items) THEN acc
  ELSE LET control == items[i]
           entityType == replaceString(control.tag, ENTITY_PREFIX, << >>)
           entity == getEntity(m, entityType)
       IN  IF startsWith(control.tag, ENTITY_PREFIX) /\ entity /= Undefined
           THEN ResolveItems_keepsTag(m, items, i + 1,
                  [controls |-> Append(acc.controls,
                                       [tag |-> control.tag, text |-> entity.content]),
                   resolved |-> Append(acc.resolved, entityType)])
           ELSE ResolveItems_keepsTag(m, items, i + 1,
                  [acc EXCEPT !.controls = Append(acc.controls, control)])

(* The loop over contentControls.items from item i on: an item whose tag
   starts with "entity:" and names an entity of the library m takes the
   entity's content, the tag resolved:<type>, and its type is pushed. *)
RECURSIVE ResolveItems(_, _, _, _)
ResolveItems(m, items, i, acc) ==
  IF i > Len(items) THEN acc
  ELSE LET control == items[i]
           entityType == replaceString(control.tag, ENTITY_PREFIX, << >>)
           entity == getEntity(m, entityType)
       IN  IF startsWith(control.tag, ENTITY_PREFIX) /\ entity /= Undefined
           THEN ResolveItems(m, items, i + 1,
                  [controls |-> Append(acc.controls,
                                       [tag |-> RESOLVED_PREFIX \o entityType,
                                        text |-> entity.content]),
                   resolved |-> Append(acc.resolved, entityType)])
           ELSE ResolveItems(m, items, i + 1,
                  [acc EXCEPT !.controls = Append(acc.controls, control)])

InitControls ==
  /\ NotControlsInit
  /\ controls \in ControlsUpTo(MaxControls)
  /\ resolution = Undefined

(* resolveEntityInsertionPoints(): inside the Word run, load the controls
   and their tags, queue the changes of the loop and sync; the changes
   reach the document when the host carries out the run, and a failed run
   is a DocumentError. *)
ResolveEntityInsertionPoints(hostOk) ==
  /\ resolution = Undefined
  /\ wordRuns' = wordRuns + 1
  /\ LET out == ResolveItems(entities, controls, 1,
                             [controls |-> << >>, resolved |-> << >>])
     IN  IF hostOk
         THEN /\ controls' = out.controls
              /\ resolution' = [threw |-> "none", value |-> out.resolved]
         ELSE /\ controls' = controls
              /\ resolution' = [threw |-> RunError("HostError"), value |-> Undefined]
  /\ UNCHANGED <<impl, entities, history, last, doc, fonts, pending>>
  /\ UNCHANGED <<runVars, xmlVars, validationVars, cacheVars>>

NextControls == \E hostOk \in BOOLEAN : ResolveEntityInsertionPoints(hostOk)

SpecControls == InitControls /\ [][NextControls]_vars

(* ----------------------------------------------------------- safeWordRun *)

MaxRuns == 2

(* new Error(message) *)
Error(message) ==
  [tag |-> "Error", name |-> "Error", message |-> message, cause |-> Undefined]

(* new DocumentError(message, cause): an Error whose name is
   "DocumentError" and that keeps the cause. *)
DocumentError(message, cause) ==
  [tag |-> "Error", name |-> "DocumentError", message |-> message, cause |-> cause]

MockResult == [tag |-> "object", text |-> "test"]

ThrownString == [tag |-> "string", text |-> "boom"]

HostError == Error("GeneralException")

(* What a callback resolves with: an object, undefined, an Error object
   handed back as a value. *)
FnResults == {MockResult, Undefined, Error("returned, not thrown")}

(* What a callback rejects with: an Error, a value that is not an Error,
   undefined, a DocumentError made further in. *)
FnErrors ==
  {Error("Word error"), ThrownString, Undefined,
   DocumentError("Failed to execute Word operation", Error("inner"))}

(* The callbacks handed to safeWordRun, by what their promise settles to. *)
Callbacks ==
  {[settles |-> "fulfilled", value |-> v] : v \in FnResults}
  \cup {[settles |-> "rejected", value |-> e] : e \in FnErrors}

(* Word.run(fn): the host makes a context, calls fn(context) once and
   settles as fn does; when fn resolved, the host's closing sync can still
   reject the run. *)
WordRun(fn, hostOk) ==
  IF fn.settles = "fulfilled" /\ ~hostOk
  THEN [invoked |-> 1, settles |-> "rejected", value |-> HostError]
  ELSE [invoked |-> 1, settles |-> fn.settles, value |-> fn.value]

(* Mutant of safeWordRun: the error is thrown on as it came. *)
safeWordRun_rethrows(fn, hostOk) == WordRun(fn, hostOk)

(* Mutant of safeWordRun: a failed run is tried once more. *)
safeWordRun_retries(fn, hostOk) ==
  LET run == WordRun(fn, hostOk)
  IN  IF run.settles = "fulfilled" THEN run
      ELSE [invoked |-> run.invoked + WordRun(fn, hostOk).invoked,
            settles |-> "rejected",
            value |-> DocumentError("Failed to execute Word operation", run.value)]

(* safeWordRun(fn): return await Word.run(fn); any rejection is caught and
   a DocumentError holding it as cause is thrown. *)
safeWordRun(fn, hostOk) ==
  LET run == WordRun(fn, hostOk)
  IN  IF run.settles = "fulfilled" THEN run
      ELSE [run EXCEPT
              !.value = DocumentError("Failed to execute Word operation", run.value)]

InitRun ==
  /\ NotRunInit
  /\ runLog = << >>

(* One call of safeWordRun, awaited to its end. *)
SafeWordRun(fn, hostOk) ==
  /\ Len(runLog) < MaxRuns
  /\ runLog' = Append(runLog, [fn |-> fn, hostOk |-> hostOk,
                               outcome |-> safeWordRun(fn, hostOk)])
  /\ UNCHANGED notRun

NextRun == \E fn \in Callbacks, hostOk \in BOOLEAN : SafeWordRun(fn, hostOk)

SpecRun == InitRun /\ [][NextRun]_vars

(* ------------------------------------------------------ generateCustomXml *)

MaxValueLen == 3

AMP == "&"

LT == "<"

GT == ">"

QUOT == "\""

APOS == "'"

(* Characters data values are made of: the five that are escaped, a letter
   and the semicolon that ends an entity reference. *)
XmlAlphabet == {AMP, LT, GT, QUOT, APOS, "a", ";"}

RECURSIVE StringsUpTo(_, _)
StringsUpTo(alphabet, n) ==
  IF n = 0 THEN {<< >>}
  ELSE LET shorter == StringsUpTo(alphabet, n - 1)
       IN  shorter \cup {Append(w, c) : w \in shorter, c \in alphabet}

(* Values of the tests, and values that already hold an entity reference. *)
XmlTestValues ==
  {<<"T","e","s","t"," ","<","s","c","r","i","p","t",">"," ","&"," ","m","o","r","e">>,
   <<"J","o","h","n">>,
   <<"&","l","t",";">>,
   <<"&","a","m","p",";","l","t",";">>}

XmlValues == StringsUpTo(XmlAlphabet, MaxValueLen) \cup XmlTestValues

KEY_CONTENT == <<"c","o","n","t","e","n","t">>

KEY_NAME == <<"n","a","m","e">>

(* Data objects, as their Object.entries: one key, or two keys. *)
XmlData ==
  {<< <<KEY_CONTENT, v>> >> : v \in XmlValues}
  \cup {<< <<KEY_NAME, v>>, <<KEY_CONTENT, w>> >> :
          v \in XmlTestValues, w \in StringsUpTo(XmlAlphabet, 1)}

NAMESPACE == <<"h","t","t","p",":","/","/","t","e","s","t",".","c","o","m">>

ROOT_ELEMENT == <<"d","a","t","a">>

(* Mutant of escapeXml: the ampersand is escaped last. *)
escapeXml_ampersandLast(text) ==
  replace(replace(replace(replace(replace(text,
    RegExp(<<LT>>), <<"&","l","t",";">>),
    RegExp(<<GT>>), <<"&","g","t",";">>),
    RegExp(<<QUOT>>), <<"&","q","u","o","t",";">>),
    RegExp(<<APOS>>), <<"&","a","p","o","s",";">>),
    RegExp(<<AMP>>), <<"&","a","m","p",";">>)

(* escapeXml(text): five global replacements, one after the other, the
   ampersand first. *)
escapeXml(text) ==
  replace(replace(replace(replace(replace(text,
    RegExp(<<AMP>>), <<"&","a","m","p",";">>),
    RegExp(<<LT>>), <<"&","l","t",";">>),
    RegExp(<<GT>>), <<"&","g","t",";">>),
    RegExp(<<QUOT>>), <<"&","q","u","o","t",";">>),
    RegExp(<<APOS>>), <<"&","a","p","o","s",";">>)

(* Array.prototype.join *)
RECURSIVE join(_, _)
join(strings, separator) ==
  IF strings = << >> THEN << >>
  ELSE IF Len(strings) = 1 THEN strings[1]
  ELSE strings[1] \o separator \o join(Tail(strings), separator)

(* One line of the entries: two spaces, the element named by the key, the
   escaped value as its text. *)
EntryLine(entry) ==
  <<" ", " ", LT>> \o entry[1] \o <<GT>> \o escapeXml(entry[2])
    \o <<LT, "/">> \o entry[1] \o <<GT>>

(* generateCustomXml(namespace, rootElement, data) *)
generateCustomXml(namespace, rootElement, entries) ==
  <<"<","?","x","m","l"," ","v","e","r","s","i","o","n","=","\"","1",".","0","\""," ","e","n","c","o","d","i","n","g","=","\"","U","T","F","-","8","\"","?",">">>
    \o <<"\n", LT>> \o rootElement \o <<" ","x","m","l","n","s","=","\"">> \o namespace \o <<QUOT, GT, "\n">>
    \o join([i \in 1..Len(entries) |-> EntryLine(entries[i])], <<"\n">>)
    \o <<"\n", LT, "/">> \o rootElement \o <<GT>>

InitXml ==
  /\ NotXmlInit
  /\ data \in XmlData
  /\ xml = Undefined

GenerateCustomXml ==
  /\ xml = Undefined
  /\ xml' = generateCustomXml(NAMESPACE, ROOT_ELEMENT, data)
  /\ UNCHANGED <<data, notXml>>

NextXml == GenerateCustomXml

SpecXml == InitXml /\ [][NextXml]_vars

(* ------------------------------------------------------- runAllValidations *)

MaxValidatedControls == 2

MIN_WORDS == 100

Whitespace == {" ", "\t", "\n"}

(* String.prototype.trim *)
RECURSIVE trimStart(_)
trimStart(s) ==
  IF s /= << >> /\ Head(s) \in Whitespace THEN trimStart(Tail(s)) ELSE s

RECURSIVE trimEnd(_)
trimEnd(s) ==
  IF s /= << >> /\ s[Len(s)] \in Whitespace
  THEN trimEnd(SubSeq(s, 1, Len(s) - 1)) ELSE s

trim(s) == trimEnd(trimStart(s))

(* /^[^\s@]+@[^\s@]+\.[^\s@]+$/.test(text): one @, no white space, and
   after the @ a dot with at least one character on each side. *)
emailRegexTest(text) ==
  \E at \in 2..Len(text) :
    /\ text[at] = "@"
    /\ \A k \in 1..Len(text) : k /= at => text[k] \notin (Whitespace \cup {"@"})
    /\ \E dot \in (at + 2)..(Len(text) - 1) : text[dot] = "."

(* An entry of ValidationResult.errors: the fixed words of the message and
   what is filled into it. *)
Message(kind, text, count, limit) ==
  [kind |-> kind, text |-> text, count |-> count, limit |-> limit]

(* Content controls the validations meet: a valid e-mail field, an e-mail
   field without a title holding no e-mail address, a field of blanks, an
   empty e-mail field. *)
ValidatedControls ==
  {[tag |-> <<"e","m","a","i","l">>, title |-> <<"E","m","a","i","l">>, text |-> <<"a","@","b",".","c">>],
   [tag |-> <<"c","o","n","t","a","c","t","-","e","m","a","i","l">>, title |-> << >>, text |-> <<"b","a","d","@","x">>],
   [tag |-> <<"n","a","m","e">>, title |-> <<"N","a","m","e">>, text |-> <<" ", " ">>],
   [tag |-> <<"e","m","a","i","l">>, title |-> <<"E","m","a","i","l">>, text |-> << >>]}

RECURSIVE ValidatedControlsUpTo(_)
ValidatedControlsUpTo(n) ==
  IF n = 0 THEN {<< >>}
  ELSE LET shorter == ValidatedControlsUpTo(n - 1)
       IN  shorter \cup {Append(cs, c) : cs \in shorter, c \in ValidatedControls}

(* What the body gives the validations: the number of words that
   text.trim().split(/\s+/) counts, and for each of the four placeholder
   patterns the matches of body.text.match(pattern), none being null. *)
NoMatches == << >>

Bodies ==
  {[words |-> 120, matches |-> <<NoMatches, NoMatches, NoMatches, NoMatches>>],
   [words |-> 1, matches |-> <<NoMatches, NoMatches, NoMatches, NoMatches>>],
   [words |-> 150,
    matches |-> <<NoMatches, << <<"[","S","T","A","T","E","]">> >>, NoMatches, << <<"T","O","D","O">>, <<"t","o","d","o">> >> >>]}

Documents ==
  {[controls |-> cs, body |-> b] :
     cs \in ValidatedControlsUpTo(MaxValidatedControls), b \in Bodies}

PassedResult == [passed |-> TRUE, errors |-> << >>, warnings |-> << >>]

(* result.errors.push(message); result.passed = false *)
Fail(result, message) ==
  [result EXCEPT !.errors = Append(@, message), !.passed = FALSE]

(* The callback of validateRequiredFields, over the controls from i on. *)
RECURSIVE RequiredFieldsFrom(_, _, _)
RequiredFieldsFrom(items, i, result) ==
  IF i > Len(items) THEN result
  ELSE LET control == items[i]
       IN  RequiredFieldsFrom(items, i + 1,
             IF control.text = << >> \/ trim(control.text) = << >>
             THEN Fail(result, Message("Required field is empty",
                         IF control.title /= << >> THEN control.title ELSE control.tag,
                         0, 0))
             ELSE result)

(* The callback of validateNoPlaceholders, over the patterns from i on. *)
RECURSIVE NoPlaceholdersFrom(_, _, _)
NoPlaceholdersFrom(matches, i, result) ==
  IF i > Len(matches) THEN result
  ELSE NoPlaceholdersFrom(matches, i + 1,
         IF matches[i] /= NoMatches
         THEN Fail(result, Message("Found placeholders", join(matches[i], <<",", " ">>), 0, 0))
         ELSE result)

(* The callback of validateWordCount(config); a limit of 0 is a limit left
   out (both are falsy). *)
WordCount(words, config) ==
  LET afterMin ==
        IF config.minWords /= 0 /\ words < config.minWords
        THEN Fail(PassedResult,
                  Message("Document has fewer words than the minimum", << >>,
                          words, config.minWords))
        ELSE PassedResult
  IN  IF config.maxWords /= 0 /\ words > config.maxWords
      THEN Fail(afterMin,
                Message("Document has more words than the maximum", << >>,
                        words, config.maxWords))
      ELSE afterMin

(* The callback of validateEmails, over the controls from i on. *)
RECURSIVE EmailsFrom(_, _, _)
EmailsFrom(items, i, result) ==
  IF i > Len(items) THEN result
  ELSE LET control == items[i]
       IN  EmailsFrom(items, i + 1,
             IF /\ includes(control.tag, <<"e","m","a","i","l">>)
                /\ control.text /= << >>
                /\ ~emailRegexTest(control.text)
             THEN Fail(result, Message("Invalid email format", control.text, 0, 0))
             ELSE result)

(* The validations array: the names, in order. *)
Validations == <<"Required Fields", "Placeholders", "Word Count", "Emails">>

(* What the callback of the named validation returns on the document. *)
ValidationCallback(name, d) ==
  CASE name = "Required Fields" -> RequiredFieldsFrom(d.controls, 1, PassedResult)
    [] name = "Placeholders" -> NoPlaceholdersFrom(d.body.matches, 1, PassedResult)
    [] name = "Word Count" ->
         WordCount(d.body.words, [minWords |-> MIN_WORDS, maxWords |-> 0])
    [] name = "Emails" -> EmailsFrom(d.controls, 1, PassedResult)

(* validation.fn(): each validation runs its callback under safeWordRun. *)
ValidationFn(name, d, hostOk) ==
  safeWordRun([settles |-> "fulfilled", value |-> ValidationCallback(name, d)], hostOk)

(* `${error}` of an Error *)
ErrorToString(error) == <<error.name, ": ", error.message>>

(* Mutant of runAllValidationsFrom: the first validation that throws ends
   the run. *)
RECURSIVE runAllValidationsFrom_abortsOnThrow(_, _, _, _)
runAllValidationsFrom_abortsOnThrow(d, hosts, i, acc) ==
  IF i > Len(Validations) THEN acc
  ELSE LET out == ValidationFn(Validations[i], d, hosts[i])
       IN  IF out.settles = "fulfilled"
           THEN runAllValidationsFrom_abortsOnThrow(d, hosts, i + 1, Append(acc, out.value))
           ELSE acc

(* The loop of runAllValidations from validation i on: the result of the
   validation is pushed, or, when it throws, a failed result holding the
   error. *)
RECURSIVE runAllValidationsFrom(_, _, _, _)
runAllValidationsFrom(d, hosts, i, acc) ==
  IF i > Len(Validations) THEN acc
  ELSE LET out == ValidationFn(Validations[i], d, hosts[i])
       IN  runAllValidationsFrom(d, hosts, i + 1,
             Append(acc,
               IF out.settles = "fulfilled" THEN out.value
               ELSE [passed |-> FALSE,
                     errors |-> << Message("Validation error",
                                           ErrorToString(out.value), 0, 0) >>,
                     warnings |-> << >>]))

InitValidation ==
  /\ NotValidationInit
  /\ document \in Documents
  /\ results = Undefined

(* runAllValidations(); hosts[i] is whether the host carries out the Word
   run of validation i. *)
RunAllValidations(hosts) ==
  /\ results = Undefined
  /\ results' = [hosts |-> hosts,
                 value |-> runAllValidationsFrom(document, hosts, 1, << >>)]
  /\ UNCHANGED <<document, notValidation>>

NextValidation ==
  \E hosts \in [1..Len(Validations) -> BOOLEAN] : RunAllValidations(hosts)

SpecValidation == InitValidation /\ [][NextValidation]_vars

(* ----------------------------------------------------------- DocumentCache *)

MaxCacheCalls == 3

MaxTicks == 3

CACHE_TTL == 5000

(* Date.now() when the cache is constructed, and by how much the clock moves
   between calls: two steps reach the time to live exactly, three pass it. *)
START_TIME == 1000000

TICK == 2500

CacheKeys == {"selection", "paragraphs"}

CacheValues == {[tag |-> "object", text |-> "v1"], [tag |-> "object", text |-> "v2"]}

(* Mutant of DocumentCache_get: the age of the cache is not looked at. *)
DocumentCache_get_ignoresAge(c, key, time) ==
  [cache |-> c.cache, lastSync |-> c.lastSync, ret |-> MapGet(c.cache, key)]

(* get(key): a cache older than CACHE_TTL is cleared and undefined is
   returned; otherwise the entry of the key, if there is one. *)
DocumentCache_get(c, key, time) ==
  IF time - c.lastSync > CACHE_TTL
  THEN [cache |-> << >>, lastSync |-> c.lastSync, ret |-> Undefined]
  ELSE [cache |-> c.cache, lastSync |-> c.lastSync, ret |-> MapGet(c.cache, key)]

(* set(key, value) *)
DocumentCache_set(c, key, value, time) ==
  [cache |-> MapSet(c.cache, key, value), lastSync |-> time, ret |-> Undefined]

(* invalidate() *)
DocumentCache_invalidate(c) ==
  [cache |-> << >>, lastSync |-> 0, ret |-> Undefined]

(* const documentCache = new DocumentCache() *)
InitCache ==
  /\ NotCacheInit
  /\ cache = << >>
  /\ lastSync = 0
  /\ now = START_TIME
  /\ cacheCalls = << >>

(* The object before a call, and the call's effect on it and on the log. *)
CacheObject == [cache |-> cache, lastSync |-> lastSync]

Called(op, key, value, out) ==
  /\ Len(cacheCalls) < MaxCacheCalls
  /\ cache' = out.cache
  /\ lastSync' = out.lastSync
  /\ cacheCalls' = Append(cacheCalls, [op |-> op, key |-> key, value |-> value,
                                       at |-> now, ret |-> out.ret])
  /\ UNCHANGED <<now, notCache>>

CacheGet(key) == Called("get", key, Undefined, DocumentCache_get(CacheObject, key, now))

CacheSet(key, value) ==
  Called("set", key, value, DocumentCache_set(CacheObject, key, value, now))

CacheInvalidate == Called("invalidate", "", Undefined, DocumentCache_invalidate(CacheObject))

(* Time passes between two calls. *)
Tick ==
  /\ now < START_TIME + MaxTicks * TICK
  /\ now' = now + TICK
  /\ UNCHANGED <<cache, lastSync, cacheCalls, notCache>>

NextCache ==
  \/ \E key \in CacheKeys : CacheGet(key)
  \/ \E key \in CacheKeys, value \in CacheValues : CacheSet(key, value)
  \/ CacheInvalidate
  \/ Tick

SpecCache == InitCache /\ [][NextCache]_vars

(* ---------------------------------------------------------------- claims *)

(* The elements of a sequence. *)
Elements(seq) == {seq[i] : i \in 1..Len(seq)}

(* The entity most recently handed to entities.set under this id. *)
HasRegistration(id) == \E k \in 1..Len(history) : history[k].id = id

LatestIndex(id) ==
  CHOOSE k \in 1..Len(history) :
    /\ history[k].id = id
    /\ \A j \in (k + 1)..Len(history) : history[j].id /= id

Latest(id) == history[LatestIndex(id)]

(* C1: after any sequence of registrations, looking up the id of an entity
   that is currently registered returns that entity with all six fields as
   they were registered. *)
C1_RoundTrip ==
  /\ \A k \in 1..Len(history) :
       LET E == Latest(history[k].id)
           got == getEntity(entities, E.id)
       IN  /\ got /= Undefined
           /\ got.id = E.id /\ got.name = E.name /\ got.category = E.category
           /\ got.content = E.content /\ got.version = E.version
           /\ got.lastUpdated = E.lastUpdated
  /\ (last.op = "getEntity" /\ HasRegistration(last.arg)) =>
       last.ret = Latest(last.arg)

(* C1 witness: a lookup returned an entity that was registered after
   construction. *)
C1_Witness ==
  /\ last.op = "getEntity"
  /\ Registers > 0
  /\ last.ret = history[Len(history)]

(* An earlier registration under an id that was registered again later with
   a different value. *)
Superseded(k) ==
  /\ k \in 1..Len(history)
  /\ history[k] /= Latest(history[k].id)

(* C2: registering under an id already present overwrites: lookup returns
   the new entity, the Map holds one entry per id, and no superseded value is
   returned by any lookup or listing. *)
C2_LastWriteWins ==
  /\ last.op = "register" => getEntity(entities, last.arg.id) = last.arg
  /\ \A i, j \in 1..Len(entities) :
       entities[i].key = entities[j].key => i = j
  /\ Cardinality({history[k].id : k \in 1..Len(history)}) = Len(entities)
  /\ \A k \in 1..Len(history) :
       Superseded(k) =>
         /\ getEntity(entities, history[k].id) /= history[k]
         /\ history[k] \notin Elements(MapValues(entities))
         /\ \A c \in Categories :
              history[k] \notin Elements(getByCategory(entities, c))

(* C2 witness: the last call registered an entity under an id that already
   held a different entity. *)
C2_Witness ==
  /\ last.op = "register"
  /\ \E k \in 1..(Len(history) - 1) :
       history[k].id = last.arg.id /\ history[k] /= last.arg

(* C3: getByCategory(c) returns exactly the stored entities of category c,
   each once, for every category of the union. *)
C3_CategoryFilterExact ==
  /\ \A c \in Categories :
       LET r == getByCategory(entities, c)
       IN  /\ Elements(r) = {e \in Elements(MapValues(entities)) : e.category = c}
           /\ Cardinality(Elements(r)) = Len(r)
  /\ last.op = "getByCategory" =>
       Elements(last.ret) =
         {entities[i].value : i \in {j \in 1..Len(entities) :
                                       entities[j].value.category = last.arg}}

(* C3 witness: a listing by category returned some entities and left out
   others, after a registration. *)
C3_Witness ==
  /\ last.op = "getByCategory"
  /\ Registers > 0
  /\ last.ret /= << >>
  /\ Len(last.ret) < Len(entities)
  /\ \E i \in 1..Len(last.ret) : last.ret[i] \in RegisterInputs

(* C4: a registration whose category is outside the union fails with
   InvalidCategory and leaves the catalog as it was. *)
C4_InvalidCategoryRejected ==
  [][ \A entity \in RegisterInputs :
        (entity.category \notin Categories /\ Register(entity)) =>
          (entities' = entities /\ last'.threw = "InvalidCategory") ]_vars

(* C5: looking up an id that is not in the catalog returns undefined and
   raises nothing. *)
C5_UnknownIdIsUndefined ==
  /\ \A id \in LookupIds :
       ~HasRegistration(id) => getEntity(entities, id) = Undefined
  /\ (last.op = "getEntity" /\ ~HasRegistration(last.arg)) =>
       (last.ret = Undefined /\ last.threw = "none")

(* C5 witness: a lookup of an id never registered has returned. *)
C5_Witness ==
  /\ last.op = "getEntity"
  /\ last.arg = ID_NONEXISTENT
  /\ Registers > 0

(* Two characters that are equal or differ only in letter case. *)
SameIgnoringCase(a, b) ==
  \/ a = b
  \/ \E i \in 1..26 : {a, b} = {UpperCaseLetters[i], LowerCaseLetters[i]}

(* sub occurs in s at some position when letter case is ignored. *)
ContainsIgnoringCase(s, sub) ==
  \E p \in 0..(Len(s) - Len(sub)) :
    \A k \in 1..Len(sub) : SameIgnoringCase(s[p + k], sub[k])

EqualIgnoringCase(s, t) ==
  /\ Len(s) = Len(t)
  /\ \A k \in 1..Len(s) : SameIgnoringCase(s[k], t[k])

(* C6: search(q) returns exactly the stored entities whose name or content
   contains q when case is ignored, and queries that differ only in case
   return the same result. *)
C6_SearchCaseInsensitive ==
  last.op = "search" =>
    /\ Elements(last.ret) =
         {e \in Elements(MapValues(entities)) :
            \/ ContainsIgnoringCase(e.name, last.arg)
            \/ ContainsIgnoringCase(e.content, last.arg)}
    /\ \A q \in Queries :
         EqualIgnoringCase(q, last.arg) => search(entities, q) = last.ret

(* C6 witness: an upper-case query returned some but not all entities,
   among them one whose text has the query only in another case. *)
C6_Witness ==
  /\ last.op = "search"
  /\ \E k \in 1..Len(last.arg) : last.arg[k] \in DOMAIN UpperCaseIndex
  /\ last.ret /= << >>
  /\ Len(last.ret) < Len(entities)
  /\ \E i \in 1..Len(last.ret) :
       /\ ~includes(last.ret[i].name, last.arg)
       /\ ~includes(last.ret[i].content, last.arg)

(* C7: the empty query returns every entity of the catalog. *)
C7_EmptyQueryReturnsAll ==
  (last.op = "search" /\ last.arg = << >>) =>
    /\ last.ret = MapValues(entities)
    /\ Len(last.ret) = Len(entities)

(* C7 witness: the empty query has been answered on a catalog that holds
   registered entities beside the seeds. *)
C7_Witness ==
  /\ last.op = "search"
  /\ last.arg = << >>
  /\ Registers > 0
  /\ Len(last.ret) > Len(Defaults)

(* The token of a placeholder name: [KEY]. *)
TokenOf(key) == <<"[">> \o key \o <<"]">>

(* sub occurs in s at positions p .. p + Len(sub) - 1. *)
OccursAt(s, sub, p) ==
  /\ p >= 1
  /\ p + Len(sub) - 1 <= Len(s)
  /\ \A k \in 1..Len(sub) : s[p + k - 1] = sub[k]

(* For every character of the text that replace returns, the position in s
   it was kept from, or 0 when a replacement put it there: the same scan as
   ReplaceFrom, recording where characters come from. o holds the origins of
   the characters of s. *)
RECURSIVE OriginsFrom(_, _, _, _, _)
OriginsFrom(s, o, alts, replacement, pos) ==
  LET start == NextMatch(s, alts, pos)
      end == MatchAt(alts, 1, s, start)
      put == [i \in 1..Len(GetSubstitution(replacement, 1, s, start, end)) |-> 0]
  IN  IF start = 0 THEN SubSeq(o, pos, Len(s))
      ELSE SubSeq(o, pos, start - 1) \o put
           \o (IF end > start THEN OriginsFrom(s, o, alts, replacement, end)
               ELSE IF start > Len(s) THEN << >>
               ELSE <<o[start]>> \o OriginsFrom(s, o, alts, replacement, start + 1))

(* The origins, in the entity's content, of the characters of the text the
   substitution loop ends with (for entries whose patterns all compile). *)
RECURSIVE ResolvedOrigins(_, _, _)
ResolvedOrigins(content, o, entries) ==
  IF entries = << >> THEN o
  ELSE LET regexp == RegExp(PlaceholderSource(Head(entries)[1]))
       IN  ResolvedOrigins(replace(content, regexp, Head(entries)[2]),
                           OriginsFrom(content, o, regexp.alts, Head(entries)[2], 1),
                           Tail(entries))

(* The characters at positions p .. p + n - 1 of the content are all kept,
   next to each other, in the text with these origins. *)
Survives(origins, p, n) ==
  \E q \in 1..(Len(origins) - n + 1) :
    \A k \in 0..(n - 1) : origins[q + k] = p + k

(* The last call was an insertEntityWithFields that wrote its text. *)
FieldsInserted ==
  /\ last.op = "insertEntityWithFields"
  /\ last.threw = "none"

CallContent == getEntity(entities, last.arg.entityId).content

CallOrigins ==
  ResolvedOrigins(CallContent, [i \in 1..Len(CallContent) |-> i],
                  last.arg.fieldValues)

KeysOf(entries) == {entries[i][1] : i \in 1..Len(entries)}

(* C8: every occurrence of a token [KEY] whose KEY is a key of values is
   replaced: no such occurrence of the entity's content is still there, as
   it stood, in the text written; "[A] and [A] again" with A -> X gives
   "X and X again". *)
C8_EveryMappedOccurrenceReplaced ==
  /\ resolvePlaceholders(<<"[","A","]"," ","a","n","d"," ","[","A","]"," ","a","g","a","i","n">>,
                         << <<<<"A">>, <<"X">>>> >>).value
       = <<"X"," ","a","n","d"," ","X"," ","a","g","a","i","n">>
  /\ FieldsInserted =>
       \A key \in KeysOf(last.arg.fieldValues) :
         \A p \in 1..Len(CallContent) :
           OccursAt(CallContent, TokenOf(key), p) =>
             ~Survives(CallOrigins, p, Len(TokenOf(key)))

(* A token of the content: [ ... ] with no bracket in between. *)
IsToken(s, i, j) ==
  /\ 1 <= i /\ i < j /\ j <= Len(s)
  /\ s[i] = "[" /\ s[j] = "]"
  /\ \A k \in (i + 1)..(j - 1) : s[k] \notin {"[", "]"}

(* C9: every token [KEY] whose KEY is not a key of values is left in the
   text written exactly as it stood in the content, and the call succeeds;
   "[A] [B]" with A -> X gives "X [B]". *)
C9_UnmappedTokensUntouched ==
  /\ resolvePlaceholders(<<"[","A","]"," ","[","B","]">>, << <<<<"A">>, <<"X">>>> >>)
       = [threw |-> "none", value |-> <<"X"," ","[","B","]">>]
  /\ FieldsInserted =>
       \A i, j \in 1..Len(CallContent) :
         (/\ IsToken(CallContent, i, j)
          /\ SubSeq(CallContent, i + 1, j - 1) \notin KeysOf(last.arg.fieldValues))
           => Survives(CallOrigins, i, j - i + 1)

(* C10: with an empty values mapping the text written is the entity's
   content, unchanged, whether or not the content holds bracketed tokens. *)
C10_EmptyValuesIdentity ==
  /\ \A i \in 1..Len(entities) :
       resolvePlaceholders(entities[i].value.content, << >>)
         = [threw |-> "none", value |-> entities[i].value.content]
  /\ (FieldsInserted /\ last.arg.fieldValues = << >>) =>
       doc[Len(doc)] = CallContent

(* C10 witness: a call with no field values has written a content that holds
   bracketed tokens. *)
C10_Witness ==
  /\ FieldsInserted
  /\ last.arg.fieldValues = << >>
  /\ doc /= << >>
  /\ \E i, j \in 1..Len(CallContent) : IsToken(CallContent, i, j)

(* The matches <<pos, end>> that replace finds in s, in scan order: the same
   scan as ReplaceFrom. *)
RECURSIVE MatchesFrom(_, _, _)
MatchesFrom(s, alts, pos) ==
  LET start == NextMatch(s, alts, pos)
      end == MatchAt(alts, 1, s, start)
  IN  IF start = 0 THEN << >>
      ELSE << <<start, end>> >>
           \o (IF end > start THEN MatchesFrom(s, alts, end)
               ELSE IF start > Len(s) THEN << >>
               ELSE MatchesFrom(s, alts, start + 1))

(* The iterations of the substitution loop that run: for each, the content
   it starts from, its placeholder, its value and its compiled pattern. The
   loop ends at the first pattern that does not compile. *)
RECURSIVE LoopSteps(_, _)
LoopSteps(content, entries) ==
  IF entries = << >> THEN << >>
  ELSE LET regexp == RegExp(PlaceholderSource(Head(entries)[1]))
       IN  IF regexp.threw /= "none" THEN << >>
           ELSE << [s |-> content, placeholder |-> Head(entries)[1],
                    value |-> Head(entries)[2], alts |-> regexp.alts] >>
                \o LoopSteps(replace(content, regexp, Head(entries)[2]),
                             Tail(entries))

(* The last call was an insertEntityWithFields on an entity of the library
   (whatever became of the call). *)
FieldsCalled ==
  /\ last.op = "insertEntityWithFields"
  /\ getEntity(entities, last.arg.entityId) /= Undefined

CallSteps == LoopSteps(CallContent, last.arg.fieldValues)

(* C11: matching is exact-token: in every iteration of the loop, for every
   key string, the only text replaced is text that reads [ KEY ] character
   for character; everything else stays literal text. *)
C11_ExactTokenMatching ==
  FieldsCalled =>
    \A n \in 1..Len(CallSteps) :
      LET step == CallSteps[n]
          found == MatchesFrom(step.s, step.alts, 1)
      IN  \A m \in 1..Len(found) :
            SubSeq(step.s, found[m][1], found[m][2] - 1)
              = TokenOf(step.placeholder)

(* C12: replacement is textual: every replaced token is substituted by the
   replacement string exactly as given, whatever characters it holds. *)
C12_ReplacementVerbatim ==
  FieldsCalled =>
    \A n \in 1..Len(CallSteps) :
      LET step == CallSteps[n]
          found == MatchesFrom(step.s, step.alts, 1)
      IN  \A m \in 1..Len(found) :
            GetSubstitution(step.value, 1, step.s, found[m][1], found[m][2])
              = step.value

(* C13: the substitution never fails: for every entity and every values
   mapping it ends with a string and raises no error. *)
C13_ResolveNeverFails ==
  FieldsCalled =>
    /\ resolvePlaceholders(CallContent, last.arg.fieldValues).threw = "none"
    /\ last.threw \in {"none", RunError("HostError")}

(* C14: substitution never changes the stored entity: after the call the
   lookup of the entity's id still returns it as it was registered, its
   content and placeholders included, and the catalog is as before. *)
C14_StoredEntityUnchanged ==
  FieldsCalled =>
    /\ getEntity(entities, last.arg.entityId) = Latest(last.arg.entityId)
    /\ MapValues(entities) =
         [i \in 1..Len(history) |-> history[i]]

(* C14 witness: a call has written a text that differs from the entity's
   content, which holds a token. *)
C14_Witness ==
  /\ FieldsInserted
  /\ doc[Len(doc)] /= Latest(last.arg.entityId).content
  /\ \E i, j \in 1..Len(Latest(last.arg.entityId).content) :
       IsToken(Latest(last.arg.entityId).content, i, j)

LawsOfTheStateOfPlaceholder ==
  <<"l","a","w","s"," ","o","f"," ","t","h","e"," ","S","t","a","t","e"," ","o","f"," ","[","S","T","A","T","E","]">>

LawsOfTheStateOfDelaware ==
  <<"l","a","w","s"," ","o","f"," ","t","h","e"," ","S","t","a","t","e"," ","o","f"," ","D","e","l","a","w","a","r","e">>

(* C18: the governing-law seed resolved with STATE -> Delaware gives a text
   that holds "laws of the State of Delaware" and no "[STATE]" token. *)
C18_GoverningLawDelaware ==
  (FieldsInserted /\ last.arg = GoverningLawCall) =>
    /\ includes(doc[Len(doc)], LawsOfTheStateOfDelaware)
    /\ ~includes(doc[Len(doc)], TokenOf(PLACEHOLDER_STATE))

(* C18 witness: the call has written its text for the seed, whose stored
   content holds "laws of the State of [STATE]". *)
C18_Witness ==
  /\ FieldsInserted
  /\ last.arg = GoverningLawCall
  /\ CallContent \in {defaultsExample[2].content, defaultsRecipe[2].content}
  /\ includes(CallContent, LawsOfTheStateOfPlaceholder)
  /\ doc /= << >>

ID_CONFIDENTIALITY_CLAUSE == <<"c","o","n","f","i","d","e","n","t","i","a","l","i","t","y","-","c","l","a","u","s","e">>

ID_COMPANY_SIGNATURE == <<"c","o","m","p","a","n","y","-","s","i","g","n","a","t","u","r","e">>

ID_LIMITATION_LIABILITY == <<"l","i","m","i","t","a","t","i","o","n","-","l","i","a","b","i","l","i","t","y">>

(* The first registration under this id. *)
FirstIndex(id) ==
  CHOOSE k \in 1..Len(history) :
    /\ history[k].id = id
    /\ \A j \in 1..(k - 1) : history[j].id /= id

InFirstRegistrationOrder(seq) ==
  \A i, j \in 1..Len(seq) :
    i < j => FirstIndex(seq[i].id) < FirstIndex(seq[j].id)

(* C15: getByCategory and search return their entities in the insertion
   order of the catalog (the order in which their ids were first
   registered), not sorted by id, name or anything else. *)
C15_InsertionOrder ==
  /\ \A c \in Categories : InFirstRegistrationOrder(getByCategory(entities, c))
  /\ last.op \in {"getByCategory", "search"} => InFirstRegistrationOrder(last.ret)

(* C15 witness: a search returned governing-law before company-signature
   (neither id nor name order) and, after them, an entity registered later. *)
C15_Witness ==
  /\ last.op = "search"
  /\ \E i, j, k \in 1..Len(last.ret) :
       /\ i < j /\ j < k
       /\ last.ret[i].id = ID_GOVERNING_LAW
       /\ last.ret[j].id = ID_COMPANY_SIGNATURE
       /\ last.ret[k].id = ID_NDA

Lookups == {"getEntity", "getByCategory", "search"}

(* C16: the lookups leave the catalog as it is, a registration is the only
   step that changes it, and a lookup repeated with the same argument on
   the unchanged catalog returns the same result. *)
C16_OnlyRegisterChangesCatalog ==
  [][ /\ (entities' /= entities) => last'.op = "register"
      /\ (last'.op \in Lookups) => entities' = entities
      /\ (/\ last.op \in Lookups /\ last'.op = last.op
          /\ last'.arg = last.arg /\ entities' = entities)
           => last'.ret = last.ret ]_vars

(* C16 witness: a lookup has returned on a catalog that a registration had
   changed. *)
C16_Witness ==
  /\ last.op \in Lookups
  /\ Registers > 0
  /\ entities /= EntityLibrary(impl)

(* C17 as stated: right after construction the store holds exactly the three
   seeds confidentiality-clause (legal), governing-law (legal) and
   company-signature (signature). *)
C17_ExactlyThreeSeeds ==
  Registers = 0 =>
    /\ {entities[i].key : i \in 1..Len(entities)}
         = {ID_CONFIDENTIALITY_CLAUSE, ID_GOVERNING_LAW, ID_COMPANY_SIGNATURE}
    /\ getEntity(entities, ID_CONFIDENTIALITY_CLAUSE).category = "legal"
    /\ getByCategory(entities, "legal") /= << >>

SeedIds ==
  IF impl = "recipe"
  THEN <<ID_CONFIDENTIALITY_CLAUSE, ID_GOVERNING_LAW, ID_COMPANY_SIGNATURE,
         ID_LIMITATION_LIABILITY>>
  ELSE <<ID_CONFIDENTIALITY_CLAUSE, ID_GOVERNING_LAW, ID_COMPANY_SIGNATURE>>

SeedCategories ==
  IF impl = "recipe" THEN <<"legal", "legal", "signature", "legal">>
  ELSE <<"legal", "legal", "signature">>

(* C17, amended: right after construction the store holds exactly the
   entities of its defaults array: the three seeds named, and in the
   recipe's listing of the class also limitation-liability (legal); the
   lookup of confidentiality-clause is defined with category legal and the
   legal listing is not empty. *)
C17_SeedsAfterConstruction ==
  Registers = 0 =>
    /\ [i \in 1..Len(entities) |-> entities[i].key] = SeedIds
    /\ [i \in 1..Len(entities) |-> entities[i].value.id] = SeedIds
    /\ [i \in 1..Len(entities) |-> entities[i].value.category] = SeedCategories
    /\ getEntity(entities, ID_CONFIDENTIALITY_CLAUSE) /= Undefined
    /\ getEntity(entities, ID_CONFIDENTIALITY_CLAUSE).category = "legal"
    /\ getByCategory(entities, "legal") /= << >>

(* C17 witness: before any registration, the lookup of
   confidentiality-clause returned an entity of category legal. *)
C17_Witness ==
  /\ Registers = 0
  /\ last.op = "getEntity"
  /\ last.arg = ID_CONFIDENTIALITY_CLAUSE
  /\ last.ret /= Undefined
  /\ last.ret.category = "legal"

(* C19: every entity held in the catalog has a category of the union. *)
C19_CatalogCategoriesValid ==
  \A i \in 1..Len(entities) : entities[i].value.category \in Categories

(* The catalog that registering the entities of h one after the other gives:
   the ids in the order of their first registration, each with the entity
   registered last under it. *)
LatestIn(h, id) ==
  h[CHOOSE k \in 1..Len(h) :
      /\ h[k].id = id
      /\ \A j \in (k + 1)..Len(h) : h[j].id /= id]

RECURSIVE SequentialFrom(_, _)
SequentialFrom(h, k) ==
  IF k > Len(h) THEN << >>
  ELSE (IF \E j \in 1..(k - 1) : h[j].id = h[k].id THEN << >>
        ELSE << [key |-> h[k].id, value |-> LatestIn(h, h[k].id)] >>)
       \o SequentialFrom(h, k + 1)

SequentialCatalog(h) == SequentialFrom(h, 1)

(* C20: registrations take effect one at a time, as a whole: the catalog is
   the one that the registrations made so far give when applied one after
   the other, every entity in it is an entity as it was registered, and a
   lookup returns what it returns on that catalog. *)
C20_RegistrationsAtomic ==
  /\ entities = SequentialCatalog(history)
  /\ \A i \in 1..Len(entities) : entities[i].value \in Elements(history)
  /\ last.op = "getEntity" =>
       last.ret = getEntity(SequentialCatalog(history), last.arg)
  /\ last.op = "getByCategory" =>
       last.ret = getByCategory(SequentialCatalog(history), last.arg)
  /\ last.op = "search" =>
       last.ret = search(SequentialCatalog(history), last.arg)

(* C20 witness: a lookup has returned after two registrations, one of which
   overwrote an entity, and its result holds a registered entity. *)
C20_Witness ==
  /\ last.op = "getByCategory"
  /\ Registers >= 2
  /\ \E k \in 1..Len(history) : Superseded(k)
  /\ \E i \in 1..Len(last.ret) : last.ret[i] = history[Len(history)]

(* Every id a call can name. *)
KnownIds == LookupIds \cup {entity.id : entity \in RegisterInputs}

(* C21: the catalog never loses an id: an id whose lookup gives an entity
   in some state gives an entity after every step that follows. *)
C21_NeverLosesAnId ==
  [][\A id \in KnownIds :
       getEntity(entities, id) /= Undefined => getEntity(entities', id) /= Undefined]_vars

(* C21 witness: after two registrations, one that overwrote a seed, the
   lookup of the other registered id still returned an entity. *)
C21_Witness ==
  /\ Registers >= 2
  /\ last.op = "getEntity"
  /\ last.arg = ID_NDA
  /\ last.ret /= Undefined
  /\ history[Len(history)].id = ID_GOVERNING_LAW

(* The ids of a listing, in its order. *)
IdsOf(seq) == [i \in 1..Len(seq) |-> seq[i].id]

(* The registration just made overwrote an id that was present. *)
Overwrote ==
  /\ last.op = "register"
  /\ \E k \in 1..(Len(history) - 1) : history[k].id = last.arg.id

(* The entities of a listing placed before (after) the entity of this id
   were first registered before (after) it. *)
AtOriginalPosition(seq, id) ==
  \A i, j \in 1..Len(seq) :
    (seq[j].id = id /\ i /= j) => (i < j <=> FirstIndex(seq[i].id) < FirstIndex(id))

(* C27: after a registration under an id already present, the listings hold
   the new value at the position where the id was first registered. *)
C27_OverwriteKeepsPosition ==
  Overwrote =>
    LET id == last.arg.id
        before == SequentialCatalog(SubSeq(history, 1, Len(history) - 1))
        listing == getByCategory(entities, last.arg.category)
        all == search(entities, << >>)
    IN  /\ [i \in 1..Len(entities) |-> entities[i].key]
             = [i \in 1..Len(before) |-> before[i].key]
        /\ entities[MapIndex(before, id)].value = last.arg
        /\ \E i \in 1..Len(listing) : listing[i] = last.arg
        /\ AtOriginalPosition(listing, id)
        /\ impl = "recipe" =>
             /\ \E i \in 1..Len(all) : all[i] = last.arg
             /\ AtOriginalPosition(all, id)

(* C27 witness: governing-law, a seed, was overwritten after nda had been
   registered, so the new value is not the last of the catalog. *)
C27_Witness ==
  /\ Overwrote
  /\ last.arg.id = ID_GOVERNING_LAW
  /\ history[Len(history) - 1].id = ID_NDA
  /\ last.arg.category = "legal"
  /\ IdsOf(getByCategory(entities, "legal"))[2] = ID_GOVERNING_LAW
  /\ getByCategory(entities, "legal")[2] = last.arg

(* C22: safeWordRun invokes the callback exactly once; when the callback
   resolves (and the run with it) the result is the callback's, unchanged;
   when the callback or Word.run rejects, the rejection is a DocumentError
   named "DocumentError" whose cause is the original error, never the raw
   error. *)
C22_SafeWordRunWraps ==
  \A i \in 1..Len(runLog) :
    LET call == runLog[i]
        out == call.outcome
    IN  /\ out.invoked = 1
        /\ (call.fn.settles = "fulfilled" /\ call.hostOk) =>
             (out.settles = "fulfilled" /\ out.value = call.fn.value)
        /\ out.settles = "fulfilled" => out.value = call.fn.value
        /\ call.fn.settles = "rejected" =>
             /\ out.settles = "rejected"
             /\ out.value.name = "DocumentError"
             /\ out.value.cause = call.fn.value
        /\ (call.fn.settles = "fulfilled" /\ ~call.hostOk) =>
             /\ out.settles = "rejected"
             /\ out.value.name = "DocumentError"
             /\ out.value.cause = HostError
        /\ out.settles = "rejected" => out.value /= out.value.cause

(* C22 witness: one call resolved with the callback's object, another
   rejected although the callback threw a DocumentError itself. *)
C22_Witness ==
  /\ \E i \in 1..Len(runLog) :
       /\ runLog[i].outcome.settles = "fulfilled"
       /\ runLog[i].outcome.value = MockResult
  /\ \E i \in 1..Len(runLog) :
       /\ runLog[i].fn.settles = "rejected"
       /\ runLog[i].fn.value.tag = "Error"
       /\ runLog[i].fn.value.name = "DocumentError"
       /\ runLog[i].outcome.settles = "rejected"
       /\ runLog[i].outcome.value.cause = runLog[i].fn.value

(* The reference that stands for one character in element text. *)
XmlReference(c) ==
  CASE c = AMP -> <<"&","a","m","p",";">>
    [] c = LT -> <<"&","l","t",";">>
    [] c = GT -> <<"&","g","t",";">>
    [] c = QUOT -> <<"&","q","u","o","t",";">>
    [] c = APOS -> <<"&","a","p","o","s",";">>
    [] OTHER -> <<c>>

(* Every character of the text replaced by its reference, in one pass. *)
RECURSIVE EscapedOnce(_)
EscapedOnce(text) ==
  IF text = << >> THEN << >>
  ELSE XmlReference(Head(text)) \o EscapedOnce(Tail(text))

(* C23: generateCustomXml escapes the special characters of every data
   value exactly once: the element of each key holds the value with each
   of & < > " ' replaced by its reference, once, and no raw < or > of a
   value reaches the element text. *)
C23_EscapesExactlyOnce ==
  xml /= Undefined =>
    \A i \in 1..Len(data) :
      LET key == data[i][1]
          value == data[i][2]
          text == escapeXml(value)
      IN  /\ text = EscapedOnce(value)
          /\ \A k \in 1..Len(text) : text[k] \notin {LT, GT, QUOT, APOS}
          /\ includes(xml, <<LT>> \o key \o <<GT>> \o EscapedOnce(value)
                             \o <<LT, "/">> \o key \o <<GT>>)

(* C23 witness: the value of the test, with < > and &, was escaped. *)
C23_Witness ==
  /\ xml /= Undefined
  /\ data = << <<KEY_CONTENT, <<"T","e","s","t"," ","<","s","c","r","i","p","t",">"," ","&"," ","m","o","r","e">>>> >>
  /\ includes(xml, <<"T","e","s","t"," ","&","l","t",";","s","c","r","i","p","t","&","g","t",";"," ","&","a","m","p",";"," ","m","o","r","e">>)
  /\ ~includes(xml, <<"&","a","m","p",";","l","t",";">>)

InsertOps == {"insertEntity", "insertEntityWithFields", "insertEntityWithTracking"}

(* The entity id an insertion call was made with. *)
InsertedId(call) == IF call.op = "insertEntity" THEN call.arg ELSE call.arg.entityId

(* C24: an insertion function called with an id that is not in the library
   fails with the "Entity not found" error before a Word run is started:
   nothing is written to the document and the library is as it was. *)
C24_MissingEntityFailsEarly ==
  [][(last'.op \in InsertOps
        /\ getEntity(entities, InsertedId(last')) = Undefined)
       => /\ last'.threw = "Error: Entity not found"
          /\ wordRuns' = wordRuns
          /\ doc' = doc
          /\ fonts' = fonts
          /\ entities' = entities]_vars

(* C24 witness: after an insertion that wrote to the document,
   insertEntityWithTracking was called with an unknown id and threw. *)
C24_Witness ==
  /\ last.op = "insertEntityWithTracking"
  /\ last.arg.entityId = ID_NONEXISTENT
  /\ last.threw = "Error: Entity not found"
  /\ wordRuns = 1
  /\ Len(doc) = 1

(* The ids of the library. *)
LibraryIds == {entities[i].key : i \in 1..Len(entities)}

(* The control is an insertion point of the entity X of the library. *)
InsertionPointOf(control, X) == X \in LibraryIds /\ control.tag = ENTITY_PREFIX \o X

(* The ids of the insertion points among items i.., in document order. *)
RECURSIVE PointsFrom(_, _)
PointsFrom(items, i) ==
  IF i > Len(items) THEN << >>
  ELSE (IF \E X \in LibraryIds : InsertionPointOf(items[i], X)
        THEN << SubSeq(items[i].tag, Len(ENTITY_PREFIX) + 1, Len(items[i].tag)) >>
        ELSE << >>) \o PointsFrom(items, i + 1)

(* C25: when resolveEntityInsertionPoints returns, every control tagged
   entity:X with X in the library shows that entity's content and is tagged
   resolved:X, X is in the returned list in document order, and every other
   control has the tag and the text it had and adds nothing to the list. *)
C25_ResolvesInsertionPoints ==
  [][(resolution' /= resolution /\ resolution'.threw = "none") =>
       /\ Len(controls') = Len(controls)
       /\ \A i \in 1..Len(controls) :
            IF \E X \in LibraryIds : InsertionPointOf(controls[i], X)
            THEN \A X \in LibraryIds :
                   InsertionPointOf(controls[i], X) =>
                     /\ controls'[i].text = getEntity(entities, X).content
                     /\ controls'[i].tag = RESOLVED_PREFIX \o X
            ELSE controls'[i] = controls[i]
       /\ resolution'.value = PointsFrom(controls, 1)]_vars

(* C25 witness: of three controls, the first and the last were insertion
   points of two seeds and the one between was not; the list holds the two
   ids in document order. *)
C25_Witness ==
  /\ resolution /= Undefined
  /\ resolution.threw = "none"
  /\ resolution.value = <<defaultsExample[3].id, ID_GOVERNING_LAW>>
  /\ Len(controls) = 3
  /\ controls[1].tag = RESOLVED_PREFIX \o defaultsExample[3].id
  /\ controls[2] = [tag |-> ENTITY_PREFIX \o ID_NONEXISTENT, text |-> PLACEHOLDER_TEXT]
  /\ controls[3].text = defaultsExample[2].content

(* The same key/value pairs, applied in the opposite order. *)
Reversed(entries) == [i \in 1..Len(entries) |-> entries[Len(entries) + 1 - i]]

(* C26: the text placeholder substitution gives does not depend on the
   order in which the keys are applied: the pairs applied in the opposite
   order give the text that was inserted. *)
C26_OrderIndependent ==
  FieldsInserted =>
    resolvePlaceholders(CallContent, Reversed(last.arg.fieldValues)).value
      = doc[Len(doc)]

(* C28: runAllValidations returns four results, one for each of Required
   Fields, Placeholders, Word Count and Emails, in that order: slot i holds
   what validation i returned, or, when validation i threw, a result with
   passed = false and the single entry "Validation error"; a throw does
   not end the run. *)
C28_FourResultsInOrder ==
  results /= Undefined =>
    /\ Len(results.value) = 4
    /\ Validations = <<"Required Fields", "Placeholders", "Word Count", "Emails">>
    /\ \A i \in 1..4 :
         IF results.hosts[i]
         THEN results.value[i] = ValidationCallback(Validations[i], document)
         ELSE /\ results.value[i].passed = FALSE
              /\ Len(results.value[i].errors) = 1
              /\ results.value[i].errors[1].kind = "Validation error"
              /\ results.value[i].warnings = << >>

(* C28 witness: the second validation threw; the third and the fourth ran
   all the same, and reported too few words and a bad e-mail address. *)
C28_Witness ==
  /\ results /= Undefined
  /\ results.hosts = <<TRUE, FALSE, TRUE, TRUE>>
  /\ Len(results.value) = 4
  /\ results.value[2].errors[1].kind = "Validation error"
  /\ results.value[3].errors /= << >>
  /\ results.value[3].errors[1].kind = "Document has fewer words than the minimum"
  /\ results.value[4].errors /= << >>
  /\ results.value[4].errors[1].kind = "Invalid email format"

(* Call i is a get made no more than CACHE_TTL after the most recent set
   of any key, with no invalidate between that set and the get. *)
FreshAt(i) ==
  \E j \in 1..(i - 1) :
    /\ cacheCalls[j].op = "set"
    /\ \A k \in (j + 1)..(i - 1) : cacheCalls[k].op \notin {"set", "invalidate"}
    /\ cacheCalls[i].at - cacheCalls[j].at <= CACHE_TTL

(* C29: get returns a stored value only if no more than CACHE_TTL has
   passed since the most recent set of any key and nothing was invalidated
   since; otherwise it returns undefined and leaves the cache empty. *)
C29_NeverServesStale ==
  \A i \in 1..Len(cacheCalls) :
    cacheCalls[i].op = "get" =>
      /\ cacheCalls[i].ret /= Undefined => FreshAt(i)
      /\ ~FreshAt(i) =>
           /\ cacheCalls[i].ret = Undefined
           /\ i = Len(cacheCalls) => cache = << >>

(* C29 witness: a value was set, read back exactly CACHE_TTL later, and
   refused once more time had passed, which emptied the cache. *)
C29_Witness ==
  /\ Len(cacheCalls) = 3
  /\ cacheCalls[1].op = "set"
  /\ cacheCalls[2].op = "get"
  /\ cacheCalls[2].key = cacheCalls[1].key
  /\ cacheCalls[2].at = cacheCalls[1].at + CACHE_TTL
  /\ cacheCalls[2].ret = cacheCalls[1].value
  /\ cacheCalls[3].op = "get"
  /\ cacheCalls[3].at > cacheCalls[1].at + CACHE_TTL
  /\ cacheCalls[3].ret = Undefined
  /\ cache = << >>

====
